---- MODULE Spec2Model ----
(***************************************************************************)
(* The license-reclamation Slack bot (app/slack_bot.py,                    *)
(* app/notification_handler.py, app/message_processor.py,                  *)
(* app/sheet_manager.py, app/scheduler.py, app/models.py).                 *)
(*                                                                         *)
(* The store is the two tables of app/models.py.  A direct message is      *)
(* handled in two steps, as the code does: handle_slack_events queries the *)
(* member with the request's session and queues handle_dm_response as a    *)
(* background task with that same session; the task then works on the row  *)
(* that session holds and commits an UPDATE of the columns it changed.     *)
(* Nothing locks the row between the two steps (no with_for_update on      *)
(* CampaignUser), so other requests and the scheduler may commit between   *)
(* them.  A task that runs right after its request is the serial case.     *)
(*                                                                         *)
(* Texts are sequences of one-character strings, so that lower(), strip(), *)
(* the substring test of is_likely_response and the regular expressions of *)
(* analyze_response are computed, not assumed.                             *)
(***************************************************************************)
EXTENDS Integers, Sequences, FiniteSets, TLC

VARIABLES campaigns, members, sheet, channel, tasks, last, nrecv, now

vars == <<campaigns, members, sheet, channel, tasks, last, nrecv, now>>

-----------------------------------------------------------------------------
(* Bounds of the model *)

\* inbound direct messages received in one behaviour
MaxMsgs == 2

\* steps the clock may advance
MaxTicks == 1

-----------------------------------------------------------------------------
(* Nullable columns: NULL is the empty tuple, a value v is <<v>> *)

Null == <<>>

Some(v) == <<v>>

IsNull(o) == o = <<>>

-----------------------------------------------------------------------------
(* Python string operations used by the handlers *)

UpperCase ==
  <<"A","B","C","D","E","F","G","H","I","J","K","L","M",
    "N","O","P","Q","R","S","T","U","V","W","X","Y","Z">>

LowerCase ==
  <<"a","b","c","d","e","f","g","h","i","j","k","l","m",
    "n","o","p","q","r","s","t","u","v","w","x","y","z">>

LowerChar(c) ==
  IF \E i \in 1..26 : UpperCase[i] = c
    THEN LowerCase[CHOOSE i \in 1..26 : UpperCase[i] = c]
    ELSE c

\* str.lower()
Lower(s) == SubSeq([i \in 1..Len(s) |-> LowerChar(s[i])], 1, Len(s))

IsSpace(c) == c \in {" ", "\t", "\n"}

IsWordChar(c) ==
  \/ \E i \in 1..26 : LowerCase[i] = c \/ UpperCase[i] = c
  \/ c \in {"0","1","2","3","4","5","6","7","8","9","_"}

\* str.strip()
Strip(s) ==
  LET keep == {i \in 1..Len(s) : ~IsSpace(s[i])}
  IN  IF keep = {} THEN <<>>
      ELSE LET lo == CHOOSE i \in keep : \A j \in keep : i <= j
               hi == CHOOSE i \in keep : \A j \in keep : j <= i
           IN  SubSeq(s, lo, hi)

\* s[i:].startswith(p), i counted from 1
HasAt(s, i, p) ==
  /\ i + Len(p) - 1 <= Len(s)
  /\ \A j \in 1..Len(p) : s[i + j - 1] = p[j]

\* p in s
Contains(s, p) == \E i \in 1..(Len(s) + 1) : HasAt(s, i, p)

\* str(n) for the ping counts the store can hold
Digits == <<"0","1","2","3","4","5","6","7","8","9">>

Str(n) == IF n < 10 THEN Digits[n + 1] ELSE "many"

-----------------------------------------------------------------------------
(* re.search for the patterns analyze_response uses.  A pattern is a        *)
(* sequence of atoms: a literal, an optional literal (x?), \s+, an          *)
(* alternation (?:a|b), a word boundary \b, or the anchor ^.                *)

Lit(p) == [k |-> "lit", s |-> p, a |-> {}]

Opt(p) == [k |-> "opt", s |-> p, a |-> {}]

Ws     == [k |-> "ws",  s |-> <<>>, a |-> {}]

Alt(ps) == [k |-> "alt", s |-> <<>>, a |-> ps]

Bnd    == [k |-> "b",   s |-> <<>>, a |-> {}]

Bol    == [k |-> "bol", s |-> <<>>, a |-> {}]

WordAt(s, i) == i >= 1 /\ i <= Len(s) /\ IsWordChar(s[i])

RECURSIVE MatchFrom(_, _, _, _)
MatchFrom(pat, k, s, i) ==
  IF k > Len(pat) THEN TRUE
  ELSE LET at == pat[k] IN
    CASE at.k = "lit" -> HasAt(s, i, at.s) /\ MatchFrom(pat, k + 1, s, i + Len(at.s))
      [] at.k = "opt" -> \/ HasAt(s, i, at.s) /\ MatchFrom(pat, k + 1, s, i + Len(at.s))
                         \/ MatchFrom(pat, k + 1, s, i)
      [] at.k = "ws"  -> \E j \in (i + 1)..(Len(s) + 1) :
                            /\ \A x \in i..(j - 1) : IsSpace(s[x])
                            /\ MatchFrom(pat, k + 1, s, j)
      [] at.k = "alt" -> \E p \in at.a :
                            HasAt(s, i, p) /\ MatchFrom(pat, k + 1, s, i + Len(p))
      [] at.k = "b"   -> (WordAt(s, i - 1) # WordAt(s, i)) /\ MatchFrom(pat, k + 1, s, i)
      [] at.k = "bol" -> i = 1 /\ MatchFrom(pat, k + 1, s, i)

Search(pat, s) == \E i \in 1..(Len(s) + 1) : MatchFrom(pat, 1, s, i)

-----------------------------------------------------------------------------
(* MessageProcessor *)

\* is_likely_response with the keyword filter left out
is_likely_any(message) == TRUE

\* is_likely_response: a keyword occurs in message.lower()
keywords ==
  { <<"y","e","s">>, <<"n","o">>, <<"k","e","e","p">>, <<"n","e","e","d">>,
    <<"l","i","c","e","n","s","e">>, <<"u","s","i","n","g">>,
    <<"r","e","m","o","v","e">> }

is_likely_response(message) == \E w \in keywords : Contains(Lower(message), w)

W_it == <<"i","t">>

W_access == <<"a","c","c","e","s","s">>

W_license == <<"l","i","c","e","n","s","e">>

W_need == <<"n","e","e","d">>

negative_patterns ==
  { <<Lit(<<"d","o","n">>), Opt(<<"'">>), Lit(<<"t">>), Ws, Lit(W_need)>>,
    <<Lit(<<"d","o","n">>), Opt(<<"'">>), Lit(<<"t">>), Ws, Lit(<<"w","a","n","t">>)>>,
    <<Lit(<<"n","o">>), Ws, Lit(<<"l","o","n","g","e","r">>), Ws, Lit(W_need)>>,
    <<Lit(<<"n","o","t">>), Ws,
      Alt({<<"n","e","e","d","e","d">>, <<"u","s","i","n","g">>,
           <<"r","e","q","u","i","r","e","d">>})>>,
    <<Bol, Lit(<<"n","o">>), Bnd>>,
    <<Bnd, Lit(<<"n","o">>), Ws, Lit(<<"t","h","a","n","k">>), Opt(<<"s">>), Bnd>>,
    <<Lit(<<"r","e","m","o","v","e">>), Ws, Alt({W_it, W_access, W_license})>>,
    <<Lit(<<"c","a","n","c","e","l">>), Ws, Alt({W_it, W_access, W_license})>> }

positive_patterns ==
  { <<Bnd, Lit(<<"y","e","s">>), Bnd>>,
    <<Bnd, Lit(<<"y","e","a","h">>), Bnd>>,
    <<Bnd, Lit(<<"y","e","p">>), Bnd>>,
    <<Alt({<<"s","t","i","l","l">>, <<"d","o">>}), Ws, Lit(W_need)>>,
    <<Lit(<<"w","a","n","t">>), Ws, Lit(<<"t","o">>), Ws, Lit(<<"k","e","e","p">>)>>,
    <<Lit(<<"k","e","e","p","i","n","g">>), Ws, Lit(W_it)>>,
    <<Lit(<<"u","s","i","n","g">>), Ws, Lit(W_it)>> }

need_words ==
  { W_need, <<"w","a","n","t">>, <<"u","s","e">>, <<"u","s","i","n","g">>,
    <<"r","e","q","u","i","r","e">> }

\* What the language model and spaCy answer is not decided by the code: an
\* oracle o says whether the call raised (o.fail), whether "yes" / "no"
\* occur in the generated reply (o.yes, o.no) and whether spaCy found a
\* negation token (o.neg).
Oracles == [fail : BOOLEAN, yes : BOOLEAN, no : BOOLEAN, neg : BOOLEAN]

\* Confidence is kept in tenths: 9 is 0.9, 5 is 0.5, 10 is 1.0, 0 is 0.0.
\* analyze_response after both pattern lists missed
model_decision(message_lower, o) ==
  IF o.fail THEN <<"unclear", 0>>
  ELSE IF (\E w \in need_words : Contains(message_lower, w)) /\ o.neg
         THEN <<"no", 10>>
  ELSE IF o.yes /\ ~o.neg THEN <<"yes", 9>>
  ELSE IF o.no \/ o.neg THEN <<"no", 9>>
  ELSE <<"unclear", 5>>

analyze_response(message, o) ==
  LET message_lower == Lower(message) IN
  IF \E p \in negative_patterns : Search(p, message_lower) THEN <<"no", 9>>
  ELSE IF \E p \in positive_patterns : Search(p, message_lower) THEN <<"yes", 9>>
  ELSE model_decision(message_lower, o)

-----------------------------------------------------------------------------
(* The inputs of the model *)

\* " Yes " : a literal yes once lowered and stripped
TxtYes == <<" ","Y","e","s"," ">>

\* "NO" : a literal no once lowered
TxtNo == <<"N","O">>

\* "yep" : no keyword of is_likely_response occurs in it
TxtYep == <<"y","e","p">>

\* "I don't need it anymore" : decided by negative_patterns
TxtRelease ==
  <<"I"," ","d","o","n","'","t"," ","n","e","e","d"," ","i","t"," ",
    "a","n","y","m","o","r","e">>

\* "keep it" : a keyword occurs, no pattern matches, the model decides
TxtKeep == <<"k","e","e","p"," ","i","t">>

Texts == {TxtYes, TxtNo, TxtYep, TxtRelease, TxtKeep}

Emails == {"a@x.com", "b@x.com"}

\* users_lookupByEmail of the workspace the bot is installed in
LookupByEmail(e) == IF e = "a@x.com" THEN "U1" ELSE "U2"

SlackUsers == {LookupByEmail(e) : e \in Emails}

SheetLink == "https://docs/d/L1/edit"

SheetHeader == <<"Email", "Number of Pings", "Decision">>

\* The string functions on the texts of the model, tabulated once
Likely == [t \in Texts |-> is_likely_response(t)] @@ << >>

Analyzed == [p \in Texts \X Oracles |-> analyze_response(p[1], p[2])] @@ << >>

Normalized == [t \in Texts |-> Strip(Lower(t))] @@ << >>

\* the oracles that matter for a text: all of them when the model is asked,
\* one when a pattern list decides
OraclesFor(t) ==
  IF \A o \in Oracles : Analyzed[<<t, o>>] = Analyzed[<<t, CHOOSE q \in Oracles : TRUE>>]
    THEN {CHOOSE q \in Oracles : TRUE}
    ELSE Oracles

-----------------------------------------------------------------------------
(* app/models.py *)

\* a CampaignUser row as process_file_upload inserts it
NewCampaignUser(cid, email) ==
  [ campaign_id         |-> cid,
    user_email          |-> email,
    slack_user_id       |-> Null,
    response            |-> Null,
    response_confidence |-> Null,
    raw_response        |-> Null,
    num_pings           |-> 0,
    last_ping           |-> Null,
    response_time       |-> Null,
    response_confirmed  |-> FALSE ]

\* a Campaign row once process_task_message has made it ONGOING
OngoingCampaign(manager, link, t) ==
  [ manager_id              |-> manager,
    google_sheet_link       |-> link,
    state                   |-> "ONGOING",
    prompt                  |-> Some("task"),
    crafted_msg             |-> Some("msg"),
    notifications_started   |-> TRUE,
    notification_start_time |-> Some(t) ]

\* The member states of the protocol, read off the two columns
S0(u) == IsNull(u.response) /\ ~u.response_confirmed

S1(u) == ~IsNull(u.response) /\ ~u.response_confirmed

S2(u) == ~IsNull(u.response) /\ u.response_confirmed

MemberIds == 1..Len(members)

-----------------------------------------------------------------------------
(* NotificationHandler.send_initial_notifications, one member: the lookup  *)
(* failed ("nouser"), the lookup succeeded but the channel or the send did *)
(* not ("nosend"), or the message was sent ("sent").                       *)

FanOutOutcomes == {"nouser", "nosend", "sent"}

initial_notification(user, outcome, t) ==
  IF outcome = "nouser" THEN user
  ELSE IF outcome = "nosend"
    THEN [user EXCEPT !.slack_user_id = Some(LookupByEmail(user.user_email))]
  ELSE [user EXCEPT !.slack_user_id = Some(LookupByEmail(user.user_email)),
                    !.num_pings = 1,
                    !.last_ping = Some(t)]

\* The rosters uploaded: one address, or two distinct addresses
Rosters == { <<"a@x.com">>, <<"a@x.com", "b@x.com">> }

\* the record of `last` before any task has run
NoTask ==
  [ seq |-> 0, user |-> "", text |-> <<>>, member |-> 0,
    loaded |-> NewCampaignUser(0, ""), before |-> NewCampaignUser(0, ""),
    status |-> "none", reply |-> "none", cls |-> Null, ledger |-> "none",
    prev |-> "none" ]

-----------------------------------------------------------------------------
(* SheetManager.update_user_response on the rows of the sheet.  The         *)
(* outcome is "ok", "fail" (no access, or the API refused the first write)  *)
(* or "partial" (the row exists, column B was written and the write of      *)
(* column C was refused).  The method catches every error it meets.         *)

LedgerOutcomes == {"ok", "fail", "partial"}

update_user_response(rows, user_email, num_pings, decision, outcome) ==
  LET found == {r \in 1..Len(rows) : \E c \in 1..3 : rows[r][c] = user_email} IN
  IF outcome = "fail" THEN rows
  ELSE IF found = {}
    THEN Append(rows, <<user_email, Str(num_pings), decision>>)
  ELSE LET row_num == CHOOSE r \in found : \A q \in found : r <= q IN
       IF outcome = "partial"
         THEN [rows EXCEPT ![row_num][2] = Str(num_pings)]
         ELSE [rows EXCEPT ![row_num][2] = Str(num_pings), ![row_num][3] = decision]

-----------------------------------------------------------------------------
(* handle_dm_response on the row `user` its session holds: the row object  *)
(* after the assignments (obj), the reply posted to the channel (reply),   *)
(* whether the sheet is updated (push) and what analyze_response returned  *)
(* (cls, Null when it was not called).                                     *)

ReplyConfirm(decision) ==
  IF decision = "yes" THEN "confirm: want to keep" ELSE "confirm: do not want to keep"

\* dm_initial without the assignment of raw_response
dm_initial_no_raw(user, user_message, cls, t) ==
  [ obj   |-> [user EXCEPT !.response = Some(cls[1]),
                           !.response_confidence = Some(cls[2]),
                           !.response_time = Some(t)],
    reply |-> ReplyConfirm(cls[1]),
    push  |-> FALSE,
    cls   |-> Some(cls) ]

\* dm_initial without the assignment of response_time
dm_initial_no_time(user, user_message, cls, t) ==
  [ obj   |-> [user EXCEPT !.response = Some(cls[1]),
                           !.response_confidence = Some(cls[2]),
                           !.raw_response = Some(user_message)],
    reply |-> ReplyConfirm(cls[1]),
    push  |-> FALSE,
    cls   |-> Some(cls) ]

dm_initial(user, user_message, cls, t) ==
  [ obj   |-> [user EXCEPT !.response = Some(cls[1]),
                           !.response_confidence = Some(cls[2]),
                           !.raw_response = Some(user_message),
                           !.response_time = Some(t)],
    reply |-> ReplyConfirm(cls[1]),
    push  |-> FALSE,
    cls   |-> Some(cls) ]

\* dm_confirmation comparing the text as typed, without lower().strip()
dm_confirmation_as_typed(user, user_message, cls) ==
  IF user_message = <<"y","e","s">>
    THEN [ obj   |-> [user EXCEPT !.response_confirmed = TRUE],
           reply |-> "recorded",
           push  |-> TRUE,
           cls   |-> Some(cls) ]
  ELSE IF user_message = <<"n","o">>
    THEN [ obj   |-> [user EXCEPT !.response = Null,
                                  !.response_confidence = Null,
                                  !.raw_response = Null,
                                  !.response_time = Null],
           reply |-> "clarify",
           push  |-> FALSE,
           cls   |-> Some(cls) ]
  ELSE [ obj |-> user, reply |-> "reprompt", push |-> FALSE, cls |-> Some(cls) ]

\* dm_confirmation whose reset leaves raw_response in place
dm_confirmation_keeps_raw(user, user_message, cls) ==
  IF Normalized[user_message] = <<"y","e","s">>
    THEN [ obj   |-> [user EXCEPT !.response_confirmed = TRUE],
           reply |-> "recorded",
           push  |-> TRUE,
           cls   |-> Some(cls) ]
  ELSE IF Normalized[user_message] = <<"n","o">>
    THEN [ obj   |-> [user EXCEPT !.response = Null,
                                  !.response_confidence = Null,
                                  !.response_time = Null],
           reply |-> "clarify",
           push  |-> FALSE,
           cls   |-> Some(cls) ]
  ELSE [ obj |-> user, reply |-> "reprompt", push |-> FALSE, cls |-> Some(cls) ]

dm_confirmation(user, user_message, cls) ==
  IF Normalized[user_message] = <<"y","e","s">>
    THEN [ obj   |-> [user EXCEPT !.response_confirmed = TRUE],
           reply |-> "recorded",
           push  |-> TRUE,
           cls   |-> Some(cls) ]
  ELSE IF Normalized[user_message] = <<"n","o">>
    THEN [ obj   |-> [user EXCEPT !.response = Null,
                                  !.response_confidence = Null,
                                  !.raw_response = Null,
                                  !.response_time = Null],
           reply |-> "clarify",
           push  |-> FALSE,
           cls   |-> Some(cls) ]
  ELSE [ obj |-> user, reply |-> "reprompt", push |-> FALSE, cls |-> Some(cls) ]

\* dm_response that gives up on a member who has had every reminder
dm_response_gives_up(user, user_message, o, t) ==
  IF user.num_pings >= 3
    THEN [ obj |-> user, reply |-> "none", push |-> FALSE, cls |-> Null ]
  ELSE IF IsNull(user.response) \/ ~user.response_confirmed
    THEN IF Likely[user_message]
           THEN LET cls == Analyzed[<<user_message, o>>] IN
                IF IsNull(user.response)
                  THEN dm_initial(user, user_message, cls, t)
                  ELSE dm_confirmation(user, user_message, cls)
           ELSE [ obj |-> user, reply |-> "none", push |-> FALSE, cls |-> Null ]
    ELSE [ obj |-> user, reply |-> "already recorded", push |-> FALSE, cls |-> Null ]

\* dm_response without the test that the response is already confirmed
dm_response_unguarded(user, user_message, o, t) ==
  IF Likely[user_message]
    THEN LET cls == Analyzed[<<user_message, o>>] IN
         IF IsNull(user.response)
           THEN dm_initial(user, user_message, cls, t)
           ELSE dm_confirmation(user, user_message, cls)
    ELSE [ obj |-> user, reply |-> "none", push |-> FALSE, cls |-> Null ]

dm_response(user, user_message, o, t) ==
  IF IsNull(user.response) \/ ~user.response_confirmed
    THEN IF Likely[user_message]
           THEN LET cls == Analyzed[<<user_message, o>>] IN
                IF IsNull(user.response)
                  THEN dm_initial(user, user_message, cls, t)
                  ELSE dm_confirmation(user, user_message, cls)
           ELSE [ obj |-> user, reply |-> "none", push |-> FALSE, cls |-> Null ]
    ELSE [ obj |-> user, reply |-> "already recorded", push |-> FALSE, cls |-> Null ]

\* a commit that writes every column of the session's row
Commit_all_columns(row, loaded, obj) == obj

\* db.commit(): the UPDATE sets the columns whose value differs from the
\* value the session loaded, on the row as it is in the store now
Commit(row, loaded, obj) ==
  [f \in DOMAIN row |-> IF obj[f] # loaded[f] THEN obj[f] ELSE row[f]]

-----------------------------------------------------------------------------
(* The initial states: the store once one campaign has been set up and its *)
(* initial messages sent (process_file_upload, process_task_message), at   *)
(* time 0, and possibly once the first member has answered "I don't need   *)
(* it anymore" and waits to confirm.  channel is the bot's latest message  *)
(* in each user's direct channel.                                          *)

AfterFanOut(r, oc) ==
  [i \in 1..Len(r) |-> initial_notification(NewCampaignUser(1, r[i]), oc[i], 0)]

Answered(user) ==
  dm_response(user, TxtRelease, CHOOSE o \in Oracles : TRUE, 0).obj

Init ==
  /\ now = 0
  /\ campaigns = << OngoingCampaign("M1", SheetLink, 0) >>
  /\ \E r \in Rosters : \E oc \in [1..Len(r) -> FanOutOutcomes] :
     \E pending \in BOOLEAN :
        /\ pending => oc[1] # "nouser"
        /\ members = [i \in 1..Len(r) |->
                        IF pending /\ i = 1 THEN Answered(AfterFanOut(r, oc)[i])
                                            ELSE AfterFanOut(r, oc)[i]]
        /\ channel = [u \in SlackUsers |->
                        IF pending /\ LookupByEmail(r[1]) = u
                          THEN ReplyConfirm("no")
                        ELSE IF \E i \in 1..Len(r) :
                                  oc[i] = "sent" /\ LookupByEmail(r[i]) = u
                          THEN "msg" ELSE "none"]
  /\ sheet = << SheetHeader >>
  /\ tasks = << >>
  /\ last = NoTask
  /\ nrecv = 0

-----------------------------------------------------------------------------
(* The background tasks queued by handle_slack_events, in arrival order.   *)
(* A task keeps the event and the row its session loaded.  last is the     *)
(* task that ran most recently, with the row as it was in the store when   *)
(* the task ran (before), what it replied and what it did.                  *)

\* the join without the filter on the campaign's state
Routed_any_state(u) ==
  {i \in MemberIds : members[i].slack_user_id = Some(u)}

\* CampaignUser joined to an ONGOING campaign for this Slack user; .first()
\* is the row of lowest id
Routed(u) ==
  {i \in MemberIds : /\ members[i].slack_user_id = Some(u)
                     /\ campaigns[members[i].campaign_id].state = "ONGOING"}

\* handle_slack_events, a message event of channel_type im with a text and
\* no file: queue handle_dm_response when the sender is a member of an
\* ONGOING campaign.  Any other sender is acknowledged and nothing changes.
ReceiveDm(u, text) ==
  /\ nrecv < MaxMsgs
  /\ Routed(u) # {}
  /\ LET m == CHOOSE i \in Routed(u) : \A j \in Routed(u) : i <= j IN
     tasks' = Append(tasks,
       [ seq |-> nrecv + 1, user |-> u, text |-> text, member |-> m,
         loaded |-> members[m] ])
  /\ nrecv' = nrecv + 1
  /\ UNCHANGED <<campaigns, members, sheet, channel, last, now>>

\* What the Slack API does with the task's reply: it is posted ("ok"), or
\* chat_postMessage raises and the except branch posts its apology ("fail")
SlackOutcomes == {"ok", "fail"}

Without(q, k) == [i \in 1..(Len(q) - 1) |-> IF i < k THEN q[i] ELSE q[i + 1]]

\* handle_dm_response without db.rollback() in its except branch: what the
\* task assigned is written although the reply could not be posted
HandleDm_no_rollback(k, o, slack, led, found) ==
  LET tk == tasks[k]
      m  == tk.member
      r  == IF found THEN dm_response(tk.loaded, tk.text, o, now)
                     ELSE [ obj |-> tk.loaded, reply |-> "none",
                            push |-> FALSE, cls |-> Null ]
      link == campaigns[tk.loaded.campaign_id].google_sheet_link
      pushes == r.push /\ link # ""
      sent == r.reply # "none"
  IN
  /\ found \/ campaigns[tk.loaded.campaign_id].state # "ONGOING"
  /\ ~found => o = CHOOSE x \in OraclesFor(tk.text) : TRUE
  /\ led \in (IF pushes THEN LedgerOutcomes ELSE {"none"})
  /\ slack \in (IF sent THEN SlackOutcomes ELSE {"ok"})
  /\ sheet' = IF pushes
                THEN update_user_response(sheet, r.obj.user_email,
                       r.obj.num_pings, r.obj.response[1], led)
                ELSE sheet
  /\ members' = [members EXCEPT ![m] = Commit(members[m], tk.loaded, r.obj)]
  /\ channel' = IF slack = "ok" /\ sent THEN [channel EXCEPT ![tk.user] = r.reply]
                ELSE IF slack = "fail" THEN [channel EXCEPT ![tk.user] = "error"]
                ELSE channel
  /\ last' = [ seq |-> tk.seq, user |-> tk.user, text |-> tk.text, member |-> m,
               loaded |-> tk.loaded, before |-> members[m],
               status |-> IF ~found THEN "ignored"
                          ELSE IF slack = "ok" THEN "done" ELSE "failed",
               reply |-> IF slack = "ok" THEN r.reply ELSE "error",
               cls |-> r.cls, ledger |-> led, prev |-> channel[tk.user] ]
  /\ tasks' = Without(tasks, k)
  /\ UNCHANGED <<campaigns, nrecv, now>>

\* handle_dm_response writing the decision to every row of the sender
\* instead of the one row its query returned
HandleDm_every_row(k, o, slack, led, found) ==
  LET tk == tasks[k]
      m  == tk.member
      r  == IF found THEN dm_response(tk.loaded, tk.text, o, now)
                     ELSE [ obj |-> tk.loaded, reply |-> "none",
                            push |-> FALSE, cls |-> Null ]
      link == campaigns[tk.loaded.campaign_id].google_sheet_link
      pushes == r.push /\ link # ""
      sent == r.reply # "none"
  IN
  /\ found \/ campaigns[tk.loaded.campaign_id].state # "ONGOING"
  /\ ~found => o = CHOOSE x \in OraclesFor(tk.text) : TRUE
  /\ led \in (IF pushes THEN LedgerOutcomes ELSE {"none"})
  /\ slack \in (IF sent THEN SlackOutcomes ELSE {"ok"})
  /\ sheet' = IF pushes
                THEN update_user_response(sheet, r.obj.user_email,
                       r.obj.num_pings, r.obj.response[1], led)
                ELSE sheet
  /\ members' = IF slack = "ok"
                  THEN [i \in MemberIds |->
                          IF members[i].slack_user_id = Some(tk.user)
                            THEN Commit(members[i], tk.loaded, r.obj)
                            ELSE members[i]]
                  ELSE members
  /\ channel' = IF slack = "ok" /\ sent THEN [channel EXCEPT ![tk.user] = r.reply]
                ELSE IF slack = "fail" THEN [channel EXCEPT ![tk.user] = "error"]
                ELSE channel
  /\ last' = [ seq |-> tk.seq, user |-> tk.user, text |-> tk.text, member |-> m,
               loaded |-> tk.loaded, before |-> members[m],
               status |-> IF ~found THEN "ignored"
                          ELSE IF slack = "ok" THEN "done" ELSE "failed",
               reply |-> IF slack = "ok" THEN r.reply ELSE "error",
               cls |-> r.cls, ledger |-> led, prev |-> channel[tk.user] ]
  /\ tasks' = Without(tasks, k)
  /\ UNCHANGED <<campaigns, nrecv, now>>

\* handle_dm_response as a background task, for the k-th queued task.  Its
\* own query finds the member again (found), or finds nothing because the
\* campaign has left ONGOING since the event was routed, and then the task
\* ends without a write or a reply.  When chat_postMessage raises, the
\* except branch rolls the session back.  The sheet is written before the
\* reply is posted.
HandleDm(k, o, slack, led, found) ==
  LET tk == tasks[k]
      m  == tk.member
      r  == IF found THEN dm_response(tk.loaded, tk.text, o, now)
                     ELSE [ obj |-> tk.loaded, reply |-> "none",
                            push |-> FALSE, cls |-> Null ]
      link == campaigns[tk.loaded.campaign_id].google_sheet_link
      pushes == r.push /\ link # ""
      sent == r.reply # "none"
  IN
  /\ found \/ campaigns[tk.loaded.campaign_id].state # "ONGOING"
  /\ ~found => o = CHOOSE x \in OraclesFor(tk.text) : TRUE
  /\ led \in (IF pushes THEN LedgerOutcomes ELSE {"none"})
  /\ slack \in (IF sent THEN SlackOutcomes ELSE {"ok"})
  /\ sheet' = IF pushes
                THEN update_user_response(sheet, r.obj.user_email,
                       r.obj.num_pings, r.obj.response[1], led)
                ELSE sheet
  /\ members' = IF slack = "ok"
                  THEN [members EXCEPT ![m] = Commit(members[m], tk.loaded, r.obj)]
                  ELSE members
  /\ channel' = IF slack = "ok" /\ sent THEN [channel EXCEPT ![tk.user] = r.reply]
                ELSE IF slack = "fail" THEN [channel EXCEPT ![tk.user] = "error"]
                ELSE channel
  /\ last' = [ seq |-> tk.seq, user |-> tk.user, text |-> tk.text, member |-> m,
               loaded |-> tk.loaded, before |-> members[m],
               status |-> IF ~found THEN "ignored"
                          ELSE IF slack = "ok" THEN "done" ELSE "failed",
               reply |-> IF slack = "ok" THEN r.reply ELSE "error",
               cls |-> r.cls, ledger |-> led, prev |-> channel[tk.user] ]
  /\ tasks' = Without(tasks, k)
  /\ UNCHANGED <<campaigns, nrecv, now>>

-----------------------------------------------------------------------------
(* The scheduler (NotificationScheduler.init_scheduler, every 24 hours)    *)

\* timedelta(hours=24), in hours
ReminderHours == 24

\* settings.MAX_PINGS, written as the literal 3 in the sweep's query
MAX_PINGS == 3

\* the selection without the limit on num_pings
Unresponsive_uncapped ==
  {i \in MemberIds : /\ IsNull(members[i].response)
                     /\ ~IsNull(members[i].last_ping)
                     /\ members[i].last_ping[1] < now - ReminderHours}

\* the selection taking a row that was never pinged for a row pinged long ago
Unresponsive_never_pinged_too ==
  {i \in MemberIds : /\ IsNull(members[i].response)
                     /\ members[i].num_pings < MAX_PINGS
                     /\ \/ IsNull(members[i].last_ping)
                        \/ members[i].last_ping[1] < now - ReminderHours}

\* the rows check_and_resend_notifications selects
Unresponsive ==
  {i \in MemberIds : /\ IsNull(members[i].response)
                     /\ members[i].num_pings < MAX_PINGS
                     /\ ~IsNull(members[i].last_ping)
                     /\ members[i].last_ping[1] < now - ReminderHours}

\* check_and_resend_notifications: delivered is the set of selected rows
\* whose channel opened and whose reminder was posted
check_and_resend_notifications(mem, delivered) ==
  [i \in DOMAIN mem |->
     IF i \in delivered /\ ~IsNull(mem[i].slack_user_id)
       THEN [mem[i] EXCEPT !.num_pings = @ + 1, !.last_ping = Some(now)]
       ELSE mem[i]]

\* check_campaign_completion that completes once any member has confirmed
check_campaign_completion_any(camp, c, mem) ==
  LET responded_users ==
        Cardinality({i \in DOMAIN mem : /\ mem[i].campaign_id = c
                                        /\ mem[i].response_confirmed})
  IN IF camp[c].state = "ONGOING" /\ responded_users > 0
       THEN [camp EXCEPT ![c].state = "COMPLETED"]
       ELSE camp

\* check_campaign_completion without the test total_users > 0
check_campaign_completion_empty_too(camp, c, mem) ==
  LET total_users == Cardinality({i \in DOMAIN mem : mem[i].campaign_id = c})
      responded_users ==
        Cardinality({i \in DOMAIN mem : /\ mem[i].campaign_id = c
                                        /\ mem[i].response_confirmed})
  IN IF camp[c].state = "ONGOING" /\ total_users = responded_users
       THEN [camp EXCEPT ![c].state = "COMPLETED"]
       ELSE camp

\* check_campaign_completion for campaign c, on the rows mem
check_campaign_completion(camp, c, mem) ==
  LET total_users == Cardinality({i \in DOMAIN mem : mem[i].campaign_id = c})
      responded_users ==
        Cardinality({i \in DOMAIN mem : /\ mem[i].campaign_id = c
                                        /\ mem[i].response_confirmed})
  IN IF camp[c].state = "ONGOING" /\ total_users = responded_users /\ total_users > 0
       THEN [camp EXCEPT ![c].state = "COMPLETED"]
       ELSE camp

\* scheduled_tasks: the reminder sweep, then the completion check of every
\* ONGOING campaign, then check_stale_campaigns, which writes nothing to
\* the store
ScheduledTasks(delivered) ==
  /\ delivered \subseteq Unresponsive
  /\ members' = check_and_resend_notifications(members, delivered)
  /\ campaigns' = [c \in DOMAIN campaigns |->
                     check_campaign_completion(campaigns, c, members')[c]]
  /\ channel' = [u \in SlackUsers |->
                   IF \E i \in delivered : members[i].slack_user_id = Some(u)
                     THEN "reminder" ELSE channel[u]]
  /\ UNCHANGED <<sheet, tasks, last, nrecv, now>>

\* time passes, in steps just longer than the reminder interval
Tick ==
  /\ now < MaxTicks * (ReminderHours + 1)
  /\ now' = now + ReminderHours + 1
  /\ UNCHANGED <<campaigns, members, sheet, channel, tasks, last, nrecv>>

Next ==
  \/ \E u \in SlackUsers, text \in Texts : ReceiveDm(u, text)
  \/ \E k \in 1..Len(tasks) :
        \E o \in OraclesFor(tasks[k].text), slack \in SlackOutcomes,
           led \in LedgerOutcomes \cup {"none"}, found \in BOOLEAN :
              HandleDm(k, o, slack, led, found)
  \/ \E delivered \in SUBSET MemberIds : ScheduledTasks(delivered)
  \/ Tick

Spec == Init /\ [][Next]_vars

-----------------------------------------------------------------------------
(* The campaign some days after its start: the initial messages went out   *)
(* at time 0 and the scheduler has since run up to MaxEarlierSweeps times, *)
(* a day apart, the last run at the present time.                          *)

MaxEarlierSweeps == 2

MaxLateTicks == 1

MaxLateMsgs == 1

Day == ReminderHours + 1

RECURSIVE Swept(_, _)
\* the rows after the sweeps of days 1..k, each reminder delivered; mem is
\* the rows after the fan-out
Swept(mem, k) ==
  IF k = 0 THEN mem
  ELSE [i \in DOMAIN mem |->
          LET u == Swept(mem, k - 1)[i] IN
          IF /\ IsNull(u.response) /\ u.num_pings < MAX_PINGS
             /\ ~IsNull(u.last_ping) /\ ~IsNull(u.slack_user_id)
            THEN [u EXCEPT !.num_pings = @ + 1, !.last_ping = Some(k * Day)]
            ELSE u]

\* the first member's answer "I don't need it anymore", given at time t
AnsweredAt(user, t) ==
  dm_response(user, TxtRelease, CHOOSE o \in Oracles : TRUE, t).obj

SweepInit ==
  /\ campaigns = << OngoingCampaign("M1", SheetLink, 0) >>
  /\ \E r \in Rosters : \E oc \in [1..Len(r) -> FanOutOutcomes] :
     \E k \in 0..MaxEarlierSweeps : \E pending \in BOOLEAN :
        /\ pending => oc[1] # "nouser"
        /\ now = k * Day
        /\ members = [i \in 1..Len(r) |->
                        IF pending /\ i = 1
                          THEN AnsweredAt(Swept(AfterFanOut(r, oc), k)[i], now)
                          ELSE Swept(AfterFanOut(r, oc), k)[i]]
        /\ channel = [u \in SlackUsers |->
                        IF pending /\ LookupByEmail(r[1]) = u
                          THEN ReplyConfirm("no")
                        ELSE IF \E i \in 1..Len(r) :
                                  oc[i] = "sent" /\ LookupByEmail(r[i]) = u
                          THEN (IF k = 0 THEN "msg" ELSE "reminder")
                          ELSE "none"]
  /\ sheet = << SheetHeader >>
  /\ tasks = << >>
  /\ last = NoTask
  /\ nrecv = 0

\* a day passes
LateTick ==
  /\ now < (MaxEarlierSweeps + MaxLateTicks) * Day
  /\ now' = now + Day
  /\ UNCHANGED <<campaigns, members, sheet, channel, tasks, last, nrecv>>

\* a direct message arrives, as in ReceiveDm
ReceiveLateDm(u, text) ==
  /\ nrecv < MaxLateMsgs
  /\ ReceiveDm(u, text)

\* The scheduler run in two steps, since its query and its commit are apart
\* by one Slack call per selected row.  A run in progress is kept in tasks
\* as a record with member 0 whose loaded field holds the selected rows.
MaxSweepsInFlight == 1

DmTasks == {k \in 1..Len(tasks) : tasks[k].member # 0}

SweepTasks == {k \in 1..Len(tasks) : tasks[k].member = 0}

\* check_and_resend_notifications, the query
SweepSelect ==
  /\ Cardinality(SweepTasks) < MaxSweepsInFlight
  /\ tasks' = Append(tasks,
       [ seq |-> 0, user |-> "", text |-> << >>, member |-> 0,
         loaded |-> [i \in Unresponsive |-> members[i]] ])
  /\ UNCHANGED <<campaigns, members, sheet, channel, last, nrecv, now>>

\* check_and_resend_notifications from its loop to its commit, then the
\* completion checks.  delivered are the selected rows whose reminder was
\* posted; when a call raises something else than SlackApiError (aborted)
\* the run ends without its commit and without the completion checks.
SweepSend(k, delivered, aborted) ==
  LET sel == tasks[k].loaded IN
  /\ k \in SweepTasks
  /\ delivered \subseteq {i \in DOMAIN sel : ~IsNull(sel[i].slack_user_id)}
  /\ members' =
       IF aborted THEN members
       ELSE [i \in DOMAIN members |->
               IF i \in delivered
                 THEN Commit(members[i], sel[i],
                             [sel[i] EXCEPT !.num_pings = @ + 1,
                                            !.last_ping = Some(now)])
                 ELSE members[i]]
  /\ campaigns' =
       IF aborted THEN campaigns
       ELSE [c \in DOMAIN campaigns |->
               check_campaign_completion(campaigns, c, members')[c]]
  /\ channel' = [u \in SlackUsers |->
                   IF \E i \in delivered : sel[i].slack_user_id = Some(u)
                     THEN "reminder" ELSE channel[u]]
  /\ tasks' = Without(tasks, k)
  /\ UNCHANGED <<sheet, last, nrecv, now>>

SweepNext ==
  \/ \E u \in SlackUsers, text \in Texts : ReceiveLateDm(u, text)
  \/ \E k \in DmTasks :
        \E o \in OraclesFor(tasks[k].text), slack \in SlackOutcomes,
           led \in LedgerOutcomes \cup {"none"}, found \in BOOLEAN :
              HandleDm(k, o, slack, led, found)
  \/ SweepSelect
  \/ \E k \in SweepTasks : \E delivered \in SUBSET MemberIds, aborted \in BOOLEAN :
        SweepSend(k, delivered, aborted)
  \/ LateTick

SweepSpec == SweepInit /\ [][SweepNext]_vars

-----------------------------------------------------------------------------
(* Setting a campaign up: /campaign (handle_slash_command, setup_campaign), *)
(* the roster upload (process_file_upload) and the task message            *)
(* (process_task_message), from an empty store.  The work of a manager is  *)
(* queued in tasks as a record with member 0 whose loaded field tells what *)
(* is to be done (kind) and what the handler has read so far; last is the  *)
(* report of the handler that ended most recently.                         *)

\* events received in one behaviour
MaxEvents == 4

\* rows of the campaigns table
MaxCampaigns == 2

Managers == {"M1"}

\* the email cell of a CSV row is the pieces of its text: an address, a
\* blank and an address, a blank alone, or no text at all
NoCell == << >>

\* email.strip() of a cell
StripCell(cell) == IF Strip(cell) = << >> THEN "" ELSE Strip(cell)[1]

\* the CSV files uploaded
Uploads ==
  { << <<"a@x.com">>, <<"b@x.com">>, <<"a@x.com">> >>,
    << <<" ", "a@x.com">>, NoCell >>,
    << <<" ">> >> }

\* Campaign(manager_id, google_sheet_link="", state="WAITING_FOR_FILE",
\* notifications_started=False)
NewCampaign(manager) ==
  [ manager_id              |-> manager,
    google_sheet_link       |-> "",
    state                   |-> "WAITING_FOR_FILE",
    prompt                  |-> Null,
    crafted_msg             |-> Null,
    notifications_started   |-> FALSE,
    notification_start_time |-> Null ]

CampaignIds == 1..Len(campaigns)

\* the campaigns of a manager in one of the states, lowest id first
InState(manager, states) ==
  {c \in CampaignIds : /\ campaigns[c].manager_id = manager
                       /\ campaigns[c].state \in states}

First(S) == CHOOSE c \in S : \A d \in S : c <= d

ManagerTasks(kind) ==
  {k \in 1..Len(tasks) : /\ tasks[k].member = 0
                         /\ tasks[k].user \in Managers
                         /\ tasks[k].loaded.kind = kind}

ManagerTask(manager, what) ==
  [ seq |-> nrecv + 1, user |-> manager, text |-> << >>, member |-> 0,
    loaded |-> what ]

\* what a handler of a manager's event did: the campaign it worked on (0
\* when none), its reply to the manager, and for the fan-out the outcome of
\* each member and the counts returned
Report(tk, status, reply, c, outcomes, stats) ==
  [ seq |-> tk.seq, user |-> tk.user, text |-> << >>, member |-> 0,
    loaded |-> tk.loaded, status |-> status, reply |-> reply,
    campaign |-> c, outcomes |-> outcomes, stats |-> stats ]

SetupInit ==
  /\ now = 0
  /\ campaigns = << >>
  /\ members = << >>
  /\ sheet = << >>
  /\ channel = [u \in SlackUsers |-> "none"]
  /\ tasks = << >>
  /\ last = NoTask
  /\ nrecv = 0

\* handle_slash_command: setup_campaign is queued, nothing is read
ReceiveSlash(manager) ==
  /\ nrecv < MaxEvents
  /\ tasks' = Append(tasks, ManagerTask(manager, [kind |-> "setup", checked |-> FALSE]))
  /\ nrecv' = nrecv + 1
  /\ UNCHANGED <<campaigns, members, sheet, channel, last, now>>

\* setup_campaign up to its query for an active campaign of the manager
SetupCheck(k, it) ==
  LET tk == tasks[k] IN
  /\ k \in ManagerTasks("setup")
  /\ ~tk.loaded.checked
  /\ IF ~it
       THEN /\ last' = Report(tk, "denied", "not IT", 0, << >>, Null)
            /\ tasks' = Without(tasks, k)
     ELSE IF InState(tk.user, {"WAITING_FOR_FILE", "WAITING_FOR_PROMPT", "ONGOING"}) # {}
       THEN /\ last' = Report(tk, "rejected", "already active", 0, << >>, Null)
            /\ tasks' = Without(tasks, k)
     ELSE /\ last' = last
          /\ tasks' = [tasks EXCEPT ![k].loaded.checked = TRUE]
  /\ UNCHANGED <<campaigns, members, sheet, channel, nrecv, now>>

\* setup_campaign from conversations_open on: the row is inserted unless
\* opening the channel raised; the message to the manager comes after the
\* commit
SetupCommit(k, slack) ==
  LET tk == tasks[k] IN
  /\ k \in ManagerTasks("setup")
  /\ tk.loaded.checked
  /\ Len(campaigns) < MaxCampaigns
  /\ campaigns' = IF slack = "noopen" THEN campaigns
                  ELSE Append(campaigns, NewCampaign(tk.user))
  /\ last' = IF slack = "ok"
               THEN Report(tk, "created", "setup initiated", Len(campaigns) + 1, << >>, Null)
             ELSE IF slack = "nopost"
               THEN Report(tk, "created", "could not send DM", Len(campaigns) + 1, << >>, Null)
             ELSE Report(tk, "failed", "could not send DM", 0, << >>, Null)
  /\ tasks' = Without(tasks, k)
  /\ UNCHANGED <<members, sheet, channel, nrecv, now>>

\* handle_slack_events, a message with files: process_file_upload is queued
\* when the sender manages a campaign in WAITING_FOR_FILE or
\* WAITING_FOR_PROMPT; otherwise the event is acknowledged without a reply
ReceiveFile(manager, rows) ==
  /\ nrecv < MaxEvents
  /\ IF InState(manager, {"WAITING_FOR_FILE", "WAITING_FOR_PROMPT"}) # {}
       THEN /\ tasks' = Append(tasks, ManagerTask(manager, [kind |-> "file", rows |-> rows]))
            /\ last' = last
       ELSE /\ tasks' = tasks
            /\ last' = Report(ManagerTask(manager, [kind |-> "file", rows |-> rows]),
                              "unrouted", "none", 0, << >>, Null)
  /\ nrecv' = nrecv + 1
  /\ UNCHANGED <<campaigns, members, sheet, channel, now>>

\* the upload that adds each address once
RECURSIVE NewMembers_dedup(_, _)
NewMembers_dedup(c, rows) ==
  IF rows = << >> THEN << >>
  ELSE NewMembers_dedup(c, SubSeq(rows, 1, Len(rows) - 1)) \o
       (IF /\ rows[Len(rows)] # NoCell
           /\ \A j \in 1..(Len(rows) - 1) : rows[j] # rows[Len(rows)]
          THEN << NewCampaignUser(c, StripCell(rows[Len(rows)])) >>
          ELSE << >>)

\* the CampaignUser rows process_file_upload adds for campaign c
RECURSIVE NewMembers(_, _)
NewMembers(c, rows) ==
  IF rows = << >> THEN << >>
  ELSE (IF Head(rows) # NoCell
          THEN << NewCampaignUser(c, StripCell(Head(rows))) >>
          ELSE << >>) \o NewMembers(c, Tail(rows))

\* the upload that takes the campaign in WAITING_FOR_PROMPT as well
UploadStates_any == {"WAITING_FOR_FILE", "WAITING_FOR_PROMPT"}

\* the states process_file_upload accepts
UploadStates == {"WAITING_FOR_FILE"}

\* process_file_upload that tells a user who is not an IT member so and
\* goes on with the upload (the return after the message left out)
ProcessFile_no_return(k, it, download) ==
  LET tk == tasks[k]
      found == InState(tk.user, UploadStates)
      c == First(found)
  IN
  /\ k \in ManagerTasks("file")
  /\ download \in (IF it THEN {"ok", "fail"} ELSE {"ok"})
  /\ IF download = "fail"
       THEN /\ last' = Report(tk, "failed", "error processing CSV", 0, << >>, Null)
            /\ UNCHANGED <<campaigns, members>>
     ELSE IF found = {}
       THEN /\ last' = IF ~it THEN Report(tk, "denied", "not IT", 0, << >>, Null)
                       ELSE Report(tk, "rejected", "no campaign in WAITING_FOR_FILE",
                                   0, << >>, Null)
            /\ UNCHANGED <<campaigns, members>>
     ELSE /\ members' = members \o NewMembers(c, tk.loaded.rows)
          /\ campaigns' = [campaigns EXCEPT ![c].state = "WAITING_FOR_PROMPT"]
          /\ last' = IF ~it THEN Report(tk, "denied", "not IT", 0, << >>, Null)
                     ELSE Report(tk, "uploaded", "CSV uploaded", c, << >>, Null)
  /\ tasks' = Without(tasks, k)
  /\ UNCHANGED <<sheet, channel, nrecv, now>>

\* process_file_upload.  Its query locks the row (with_for_update) and reads
\* it as it is in the store, so the query, the inserts and the commit are
\* one step.
ProcessFile(k, it, download) ==
  LET tk == tasks[k]
      found == InState(tk.user, UploadStates)
      c == First(found)
  IN
  /\ k \in ManagerTasks("file")
  /\ download \in (IF it THEN {"ok", "fail"} ELSE {"ok"})
  /\ IF ~it
       THEN /\ last' = Report(tk, "denied", "not IT", 0, << >>, Null)
            /\ UNCHANGED <<campaigns, members>>
     ELSE IF download = "fail"
       THEN /\ last' = Report(tk, "failed", "error processing CSV", 0, << >>, Null)
            /\ UNCHANGED <<campaigns, members>>
     ELSE IF found = {}
       THEN /\ last' = Report(tk, "rejected", "no campaign in WAITING_FOR_FILE", 0, << >>, Null)
            /\ UNCHANGED <<campaigns, members>>
     ELSE /\ members' = members \o NewMembers(c, tk.loaded.rows)
          /\ campaigns' = [campaigns EXCEPT ![c].state = "WAITING_FOR_PROMPT"]
          /\ last' = Report(tk, "uploaded", "CSV uploaded", c, << >>, Null)
  /\ tasks' = Without(tasks, k)
  /\ UNCHANGED <<sheet, channel, nrecv, now>>

\* handle_slack_events, a direct message with "task:" and "google sheet
\* link:": process_task_message is queued when the sender manages a
\* campaign in WAITING_FOR_PROMPT, and the request session has then read
\* that row.  Otherwise the sender is looked up as a member, and a manager
\* who is none gets no reply.
ReceiveTaskMessage(manager) ==
  LET found == InState(manager, {"WAITING_FOR_PROMPT"})
      what == [kind |-> "task",
               campaign |-> IF found = {} THEN 0 ELSE First(found),
               snap |-> IF found = {} THEN NewCampaign(manager)
                                      ELSE campaigns[First(found)]]
  IN
  /\ nrecv < MaxEvents
  /\ IF found # {}
       THEN /\ tasks' = Append(tasks, ManagerTask(manager, what))
            /\ last' = last
       ELSE /\ tasks' = tasks
            /\ last' = Report(ManagerTask(manager, what), "unrouted", "none", 0, << >>, Null)
  /\ nrecv' = nrecv + 1
  /\ UNCHANGED <<campaigns, members, sheet, channel, now>>

\* send_initial_notifications, one member: as FanOutOutcomes, or a call of
\* the Slack client raised an error that is not a SlackApiError ("raise")
SendOutcomes == FanOutOutcomes \cup {"raise"}

\* the members the loop of send_initial_notifications gets to
Attempted(ids, oc) == {i \in ids : \A j \in ids : j < i => oc[j] # "raise"}

\* the state process_task_message asks for
FinalizeStates == {"WAITING_FOR_PROMPT"}

\* process_task_message.  Its query runs in the session that routed the
\* event: it returns the row as that session read it (stale), or the row
\* as it is in the store.  The commit writes the columns that differ from
\* what was read; the fan-out then reads the members, sends, and commits,
\* and when it raises, the rollback drops what the loop had set.
Finalize(k, it, stale, sheetok, oc) ==
  LET tk == tasks[k]
      c == tk.loaded.campaign
      read == IF stale THEN tk.loaded.snap ELSE campaigns[c]
      ids == {i \in MemberIds : members[i].campaign_id = c}
      raised == \E i \in ids : oc[i] = "raise"
      sent == {i \in Attempted(ids, oc) : oc[i] = "sent"}
      stats == [ success |-> Cardinality(sent),
                 failed  |-> Cardinality(ids \ sent) ]
      goes == it /\ read.state \in FinalizeStates /\ sheetok
  IN
  /\ k \in ManagerTasks("task")
  /\ oc \in [ids -> SendOutcomes]
  /\ ~goes => (\A i \in ids : oc[i] = "nouser") /\ (~it => stale /\ sheetok)
  /\ read.state \notin FinalizeStates => sheetok
  /\ \A i \in ids : members[i].user_email \notin Emails => oc[i] \in {"nouser", "raise"}
  /\ IF ~goes
       THEN /\ last' = IF ~it THEN Report(tk, "denied", "not IT", c, << >>, Null)
                       ELSE IF read.state \notin FinalizeStates
                         THEN Report(tk, "rejected", "upload a CSV first", c, << >>, Null)
                       ELSE Report(tk, "failed", "error accessing sheet", c, << >>, Null)
            /\ UNCHANGED <<campaigns, members, sheet, channel>>
       ELSE /\ campaigns' = [campaigns EXCEPT ![c] =
                               Commit(campaigns[c], read, OngoingCampaign(tk.user, SheetLink, now))]
            /\ sheet' = << SheetHeader >>
            /\ members' = IF raised THEN members
                          ELSE [i \in DOMAIN members |->
                                  IF i \in ids
                                    THEN initial_notification(members[i], oc[i], now)
                                    ELSE members[i]]
            /\ channel' = [u \in SlackUsers |->
                             IF \E i \in sent : LookupByEmail(members[i].user_email) = u
                               THEN "msg" ELSE channel[u]]
            /\ last' = IF raised
                         THEN Report(tk, "raised", "error updating campaign", c, oc, Null)
                         ELSE Report(tk, "finalized", "campaign setup complete", c, oc, Some(stats))
  /\ tasks' = Without(tasks, k)
  /\ UNCHANGED <<nrecv, now>>

SetupNext ==
  \/ \E manager \in Managers : ReceiveSlash(manager)
  \/ \E k \in 1..Len(tasks), it \in BOOLEAN : SetupCheck(k, it)
  \/ \E k \in 1..Len(tasks), slack \in {"ok", "noopen", "nopost"} : SetupCommit(k, slack)
  \/ \E manager \in Managers, rows \in Uploads : ReceiveFile(manager, rows)
  \/ \E k \in 1..Len(tasks), it \in BOOLEAN, download \in {"ok", "fail"} :
        ProcessFile(k, it, download)
  \/ \E manager \in Managers : ReceiveTaskMessage(manager)
  \/ \E k \in ManagerTasks("task"), it \in BOOLEAN, stale \in BOOLEAN, sheetok \in BOOLEAN :
        \E oc \in [{i \in MemberIds : members[i].campaign_id = tasks[k].loaded.campaign}
                     -> SendOutcomes] :
           Finalize(k, it, stale, sheetok, oc)

SetupSpec == SetupInit /\ [][SetupNext]_vars

-----------------------------------------------------------------------------
(* A campaign from its task message to its completion: the store once a    *)
(* manager has set a campaign up and uploaded a roster, then the task      *)
(* messages of the manager, the answers "yes" of the members and the       *)
(* scheduler.                                                               *)

LifecycleInit ==
  /\ now = 0
  /\ campaigns = << [NewCampaign("M1") EXCEPT !.state = "WAITING_FOR_PROMPT"] >>
  /\ \E rows \in Uploads : members = NewMembers(1, rows)
  /\ sheet = << >>
  /\ channel = [u \in SlackUsers |-> "none"]
  /\ tasks = << >>
  /\ last = NoTask
  /\ nrecv = 0

\* a member answers "yes", as in ReceiveDm
ReceiveReply(u) ==
  /\ nrecv < MaxEvents
  /\ Routed(u) # {}
  /\ LET m == First(Routed(u)) IN
     tasks' = Append(tasks,
       [ seq |-> nrecv + 1, user |-> u, text |-> TxtYes, member |-> m,
         loaded |-> members[m] ])
  /\ nrecv' = nrecv + 1
  /\ UNCHANGED <<campaigns, members, sheet, channel, last, now>>

LifecycleNext ==
  \/ \E manager \in Managers : ReceiveTaskMessage(manager)
  \/ \E k \in ManagerTasks("task"), stale \in BOOLEAN :
        \E oc \in [{i \in MemberIds : members[i].campaign_id = tasks[k].loaded.campaign}
                     -> {"sent", "nouser"}] :
           Finalize(k, TRUE, stale, TRUE, oc)
  \/ \E u \in SlackUsers : ReceiveReply(u)
  \/ \E k \in DmTasks :
        \E o \in OraclesFor(tasks[k].text), led \in LedgerOutcomes \cup {"none"},
           found \in BOOLEAN :
           HandleDm(k, o, "ok", led, found)
  \/ \E delivered \in SUBSET MemberIds : ScheduledTasks(delivered)

LifecycleSpec == LifecycleInit /\ [][LifecycleNext]_vars

-----------------------------------------------------------------------------
(* What is checked *)

YES == <<"y","e","s">>

NO == <<"n","o">>

\* what analyze_response can return for each text, over what the language
\* model may answer
Classifications ==
  [t \in Texts |-> {analyze_response(t, o) : o \in Oracles}] @@ << >>

\* the texts in whose lowered form no keyword occurs
NoKeyword ==
  [t \in Texts |-> \A w \in keywords : ~Contains(Lower(t), w)] @@ << >>

\* this step ran a handle_dm_response task; last' describes it
DmRan == last'.seq # last.seq

\* the row the task worked on is the row that was in the store when it ran
Fresh(t) == t.loaded = t.before

DecisionNull(u) ==
  /\ IsNull(u.response) /\ IsNull(u.response_confidence)
  /\ IsNull(u.raw_response) /\ IsNull(u.response_time)

\* the sheet holds the row (email, pings, decision)
InSheet(rows, email, pings, decision) ==
  \E r \in 1..Len(rows) : rows[r] = <<email, Str(pings), decision>>

\* C1: a message received once its member is in S2 (decision non-null and
\* confirmed), whatever its text, changes no member, no campaign and no row
\* of the sheet when handle_dm_response handles it; the reply is the
\* "already recorded" notice, unless the campaign has been completed in
\* between and the handler finds no member to answer.
C1_ConfirmedIsFinal ==
  [][ (DmRan /\ S2(last'.loaded)) =>
        /\ members' = members
        /\ campaigns' = campaigns
        /\ sheet' = sheet
        /\ last'.ledger = "none"
        /\ last'.status = "done" =>
              /\ last'.reply = "already recorded"
              /\ channel'[last'.user] = "already recorded"
        /\ last'.status = "ignored" => channel' = channel ]_vars

C1_Witness ==
  /\ last.status = "done"
  /\ S2(last.loaded)
  /\ last.reply = "already recorded"
  /\ S2(members[last.member])

\* C2: every member with decisionConfirmed = true has a non-null decision
\* and a non-null decisionTimestamp, in every reachable state.
C2_ConfirmedHasDecision ==
  \A i \in MemberIds :
     members[i].response_confirmed =>
        ~IsNull(members[i].response) /\ ~IsNull(members[i].response_time)

\* The two tasks y and n are a literal "yes" and a literal "no" of the same
\* member, in that arrival order, sent while the member was in S1, and both
\* have run to their end.
YesThenNo(y, n) ==
  /\ y.status = "done" /\ n.status = "done"
  /\ y.member = n.member
  /\ y.seq < n.seq
  /\ Normalized[y.text] = YES /\ Normalized[n.text] = NO
  /\ S1(y.loaded)
  /\ S1(n.loaded) \/ S2(n.loaded)

BothRan == DmRan /\ (YesThenNo(last, last') \/ YesThenNo(last', last))

C4_Linearized ==
  [][ (DmRan /\ last'.status = "done") =>
        \E o \in Oracles :
           members'[last'.member] =
              dm_response(members[last'.member], last'.text, o, now).obj ]_vars

\* C5: decisionConfirmed becomes true only in a step that handles a literal
\* "yes" for a member that is in S1, and that step keeps the pending
\* decision.
C5_ConfirmedOnlyFromS1 ==
  [][ \A i \in MemberIds :
        (~members[i].response_confirmed /\ members'[i].response_confirmed) =>
           /\ DmRan
           /\ last'.member = i
           /\ Normalized[last'.text] = YES
           /\ S1(members[i])
           /\ members'[i].response = members[i].response ]_vars

\* C6: for a member in S0, a message that is_likely_response accepts and
\* analyze_response classifies as (label, confidence) sets decision,
\* decisionConfidence, rawResponseText and decisionTimestamp to label,
\* confidence, the text and now, leaves decisionConfirmed false (S1) and
\* sends the confirmation prompt.
C6_InitialAnswer ==
  [][ (/\ DmRan
       /\ last'.status = "done"
       /\ S0(last'.before)
       /\ Fresh(last')
       /\ Likely[last'.text]) =>
        /\ ~IsNull(last'.cls)
        /\ last'.cls[1] \in Classifications[last'.text]
        /\ members' = [members EXCEPT ![last'.member] =
             [@ EXCEPT !.response            = Some(last'.cls[1][1]),
                       !.response_confidence = Some(last'.cls[1][2]),
                       !.raw_response        = Some(last'.text),
                       !.response_time       = Some(now)]]
        /\ S1(members'[last'.member])
        /\ last'.reply = ReplyConfirm(last'.cls[1][1])
        /\ channel'[last'.user] = last'.reply ]_vars

C6_Witness ==
  /\ last.status = "done"
  /\ S0(last.before)
  /\ Fresh(last)
  /\ Likely[last.text]
  /\ S1(members[last.member])
  /\ members[last.member].raw_response = Some(last.text)

\* C7: for a member in S1, a message that is "yes" once lowered and
\* stripped sets decisionConfirmed, leaves the four decision columns as
\* they were, and pushes (email, pings, decision) to the sheet; the
\* confirmation stands when the sheet refuses the write.
C7_Confirmation ==
  [][ (/\ DmRan
       /\ last'.status = "done"
       /\ S1(last'.before)
       /\ Fresh(last')
       /\ Normalized[last'.text] = YES) =>
        LET b == last'.before IN
        /\ members' = [members EXCEPT ![last'.member] =
                         [@ EXCEPT !.response_confirmed = TRUE]]
        /\ S2(members'[last'.member])
        /\ last'.ledger \in LedgerOutcomes
        /\ last'.ledger = "ok" =>
              InSheet(sheet', b.user_email, b.num_pings, b.response[1])
        /\ last'.ledger = "fail" => sheet' = sheet
        /\ last'.reply = "recorded" ]_vars

C7_Witness ==
  /\ last.status = "done"
  /\ S1(last.before)
  /\ Fresh(last)
  /\ last.text = TxtYes
  /\ last.ledger = "ok"
  /\ last.before.response = Some("no")
  /\ S2(members[last.member])
  /\ members[last.member].response = Some("no")
  /\ InSheet(sheet, last.before.user_email, last.before.num_pings, "no")

\* C8: for a member in S1, a literal "no" nulls the four decision columns
\* and leaves decisionConfirmed false (S0); the accepted message that
\* follows it puts the member in S1 with the label and confidence that
\* analyze_response gives for the new text.
C8_Retraction ==
  [][ /\ (/\ DmRan
          /\ last'.status = "done"
          /\ S1(last'.before)
          /\ Fresh(last')
          /\ Normalized[last'.text] = NO) =>
            /\ members' = [members EXCEPT ![last'.member] =
                 [@ EXCEPT !.response            = Null,
                           !.response_confidence = Null,
                           !.raw_response        = Null,
                           !.response_time       = Null]]
            /\ S0(members'[last'.member])
            /\ DecisionNull(members'[last'.member])
            /\ last'.reply = "clarify"
      /\ (/\ DmRan
          /\ last'.status = "done"
          /\ last'.prev = "clarify"
          /\ S0(last'.before)
          /\ Fresh(last')
          /\ Likely[last'.text]) =>
            LET u == members'[last'.member] IN
            /\ S1(u)
            /\ \E c \in Classifications[last'.text] :
                  /\ u.response = Some(c[1])
                  /\ u.response_confidence = Some(c[2])
            /\ u.raw_response = Some(last'.text) ]_vars

C8_Witness ==
  /\ last.status = "done"
  /\ last.prev = "clarify"
  /\ S0(last.before)
  /\ Fresh(last)
  /\ Likely[last.text]
  /\ S1(members[last.member])
  /\ members[last.member].raw_response = Some(last.text)

\* C9: for a member in S1, a text that is neither "yes" nor "no" once
\* lowered and stripped changes nothing of the member and is answered with
\* the re-prompt for a literal yes or no.
C9_Reprompt ==
  [][ (/\ DmRan
       /\ S1(last'.before)
       /\ Fresh(last')
       /\ Normalized[last'.text] \notin {YES, NO}
       /\ last'.status = "done") =>
        /\ members' = members
        /\ last'.reply = "reprompt" ]_vars

\* C10: for a member in S0, a message that is_likely_response rejects (no
\* keyword occurs in the lowered text) changes no column of the member and is not answered.
C10_SmallTalkIgnored ==
  [][ (/\ DmRan
       /\ S0(last'.before)
       /\ NoKeyword[last'.text]) =>
        /\ members' = members
        /\ sheet' = sheet
        /\ channel' = channel
        /\ last'.reply = "none"
        /\ last'.status = "done" ]_vars

C10_Witness ==
  /\ last.status = "done"
  /\ S0(last.before)
  /\ ~Likely[last.text]
  /\ last.reply = "none"
  /\ S0(members[last.member])

\* this step is a run of scheduled_tasks
SweepRan == \E delivered \in SUBSET MemberIds : ScheduledTasks(delivered)

MembersOf(c, mem) == {i \in DOMAIN mem : mem[i].campaign_id = c}

AllConfirmed(c, mem) ==
  /\ MembersOf(c, mem) # {}
  /\ \A i \in MembersOf(c, mem) : mem[i].response_confirmed

\* C11: an ONGOING campaign becomes COMPLETED only in a run of the
\* completion check that finds at least one member and every member
\* confirmed, and every run of the check that finds this completes it; with
\* a member still in S0 or S1 the campaign stays ONGOING.
C11_CompletionIff ==
  [][ \A c \in DOMAIN campaigns :
        /\ (campaigns[c].state = "ONGOING" /\ campaigns'[c].state = "COMPLETED") =>
              /\ SweepRan
              /\ AllConfirmed(c, members')
              /\ ~\E i \in MembersOf(c, members') : S0(members'[i]) \/ S1(members'[i])
        /\ (SweepRan /\ campaigns[c].state = "ONGOING" /\ AllConfirmed(c, members')) =>
              campaigns'[c].state = "COMPLETED"
        /\ (SweepRan /\ campaigns[c].state = "ONGOING" /\ ~AllConfirmed(c, members')) =>
              campaigns'[c].state = "ONGOING" ]_vars

C11_Witness ==
  /\ campaigns[1].state = "COMPLETED"
  /\ AllConfirmed(1, members)
  /\ last.status = "done"
  /\ last.reply = "recorded"

\* C12: every member has 0 <= num_pings <= 3, whatever the fan-out did and
\* however many sweeps have run.
C12_PingsBounded ==
  \A i \in MemberIds :
     members[i].num_pings >= 0 /\ members[i].num_pings <= MAX_PINGS

C12_Witness ==
  \E i \in MemberIds :
     /\ members[i].num_pings = MAX_PINGS
     /\ IsNull(members[i].response)
     /\ members[i].last_ping[1] < now - ReminderHours
     /\ channel[members[i].slack_user_id[1]] = "reminder"

\* the sweep of this step sent member i a reminder
Reminded(i) ==
  \/ members'[i].num_pings # members[i].num_pings
  \/ members'[i].last_ping # members[i].last_ping

\* C13: a step that sends a member a reminder (raises num_pings, sets
\* last_ping) finds the member's response null in the store at that
\* moment, also when a message of that member is handled while the sweep
\* is between its query and its sends.
C13_NoReminderAfterAnswer ==
  [][ \A i \in MemberIds : Reminded(i) => IsNull(members[i].response) ]_vars

\* the member has not answered and has had every reminder
GivenUpOn(u) == S0(u) /\ u.num_pings = MAX_PINGS

\* this step is the query of a sweep; the run is the last of tasks'
SweepSelected ==
  /\ Len(tasks') = Len(tasks) + 1
  /\ tasks'[Len(tasks')].member = 0

\* C20: a member that has not answered (S0) and has num_pings = 3 is
\* selected by no sweep that starts, and a sweep writes and reminds only
\* rows it selected with num_pings below 3; the member keeps its campaign
\* ONGOING, and an accepted message moves it to S1.
C20_MaxPingsMember ==
  [][ \A i \in MemberIds :
        /\ (SweepSelected /\ GivenUpOn(members[i])) =>
              i \notin DOMAIN tasks'[Len(tasks')].loaded
        /\ (Reminded(i) /\ ~DmRan) =>
              \E k \in SweepTasks : /\ i \in DOMAIN tasks[k].loaded
                                    /\ tasks[k].loaded[i].num_pings < MAX_PINGS
                                    /\ Len(tasks') = Len(tasks) - 1
        /\ (GivenUpOn(members[i]) /\ GivenUpOn(members'[i])) =>
              campaigns'[members[i].campaign_id].state =
                 campaigns[members[i].campaign_id].state
        /\ (/\ DmRan
            /\ last'.member = i
            /\ last'.status = "done"
            /\ GivenUpOn(last'.before)
            /\ Fresh(last')
            /\ Likely[last'.text]) =>
              /\ S1(members'[i])
              /\ members'[i].num_pings = MAX_PINGS ]_vars

C20_Witness ==
  /\ last.status = "done"
  /\ GivenUpOn(last.before)
  /\ Fresh(last)
  /\ S1(members[last.member])
  /\ last.before.last_ping[1] < now - ReminderHours
  /\ campaigns[1].state = "ONGOING"

-----------------------------------------------------------------------------
(* Setting up: the claims about /campaign, the upload and the task message *)

\* a handler of SetupSpec or LifecycleSpec ended in this step
HandlerRan == last'.seq # last.seq

\* the handler that ended worked on an event of this kind of a manager
ManagerRan(kind) ==
  /\ HandlerRan
  /\ last'.user \in Managers
  /\ last'.loaded.kind = kind

\* the rows of an upload whose email cell has text
WithEmail(rows) == {j \in 1..Len(rows) : rows[j] # NoCell}

\* C14: an upload that is accepted appends one member for each row whose
\* email cell has text, equal addresses included (rows a, b, a give three
\* members), each with a null response, response_confirmed false and
\* num_pings 0, leaves the rows already stored as they are, and moves the
\* campaign from WAITING_FOR_FILE to WAITING_FOR_PROMPT.
C14_RosterIngestion ==
  [][ (ManagerRan("file") /\ last'.status = "uploaded") =>
        LET rows == last'.loaded.rows
            c == last'.campaign
            new == (Len(members) + 1)..Len(members')
        IN /\ Len(members') = Len(members) + Cardinality(WithEmail(rows))
           /\ SubSeq(members', 1, Len(members)) = members
           /\ \A i \in new : /\ members'[i].campaign_id = c
                             /\ S0(members'[i])
                             /\ members'[i].num_pings = 0
                             /\ IsNull(members'[i].last_ping)
                             /\ IsNull(members'[i].slack_user_id)
           /\ \A e \in Emails \cup {""} :
                 Cardinality({i \in new : members'[i].user_email = e}) =
                 Cardinality({j \in WithEmail(rows) : StripCell(rows[j]) = e})
           /\ campaigns[c].state = "WAITING_FOR_FILE"
           /\ campaigns' = [campaigns EXCEPT ![c].state = "WAITING_FOR_PROMPT"] ]_vars

C14_Witness ==
  /\ last.user \in Managers
  /\ last.status = "uploaded"
  /\ Len(last.loaded.rows) = 3
  /\ Cardinality({i \in MemberIds : /\ members[i].campaign_id = last.campaign
                                    /\ members[i].user_email = "a@x.com"}) = 2
  /\ Cardinality({i \in MemberIds : members[i].campaign_id = last.campaign}) = 3
  /\ campaigns[last.campaign].state = "WAITING_FOR_PROMPT"

\* C15: every manager has at most one campaign in WAITING_FOR_FILE,
\* WAITING_FOR_PROMPT or ONGOING, also when two /campaign commands of the
\* manager are handled at the same time.
C15_OneActiveCampaign ==
  \A manager \in Managers :
     Cardinality(InState(manager, {"WAITING_FOR_FILE", "WAITING_FOR_PROMPT", "ONGOING"})) <= 1

\* C16: no campaign row disappears, and the state of a campaign changes
\* only from WAITING_FOR_FILE to WAITING_FOR_PROMPT, from there to ONGOING
\* and from there to COMPLETED; a COMPLETED campaign keeps its state.
C16_ForwardOnly ==
  [][ /\ Len(campaigns') >= Len(campaigns)
      /\ \A c \in CampaignIds :
            \/ campaigns'[c].state = campaigns[c].state
            \/ <<campaigns[c].state, campaigns'[c].state>> \in
                 { <<"WAITING_FOR_FILE", "WAITING_FOR_PROMPT">>,
                   <<"WAITING_FOR_PROMPT", "ONGOING">>,
                   <<"ONGOING", "COMPLETED">> } ]_vars

\* C17: a file event of a manager who has no campaign in WAITING_FOR_FILE
\* when it is handled (a second CSV once the campaign is in
\* WAITING_FOR_PROMPT or ONGOING) is turned down: no member is created and
\* no campaign changes.
C17_UploadRejected ==
  [][ (ManagerRan("file") /\ InState(last'.user, {"WAITING_FOR_FILE"}) = {}) =>
        /\ last'.status # "uploaded"
        /\ members' = members
        /\ campaigns' = campaigns ]_vars

C17_Witness ==
  /\ last.user \in Managers
  /\ last.loaded.kind = "file"
  /\ last.status = "rejected"
  /\ InState(last.user, {"WAITING_FOR_FILE"}) = {}
  /\ \E c \in InState(last.user, {"WAITING_FOR_PROMPT"}) :
        \E i \in MemberIds : members[i].campaign_id = c

\* C18: a task message takes effect only on a campaign that is in
\* WAITING_FOR_PROMPT: it then sets prompt, crafted_msg, google_sheet_link
\* and notification_start_time and makes the campaign ONGOING before the
\* fan-out; when the manager has no campaign in WAITING_FOR_PROMPT the
\* manager gets a reply and nothing is written.
C18_FinalizeOnlyFromPrompt ==
  [][ ManagerRan("task") =>
        /\ last'.status \in {"finalized", "raised"} =>
              /\ campaigns[last'.campaign].state = "WAITING_FOR_PROMPT"
              /\ campaigns'[last'.campaign] =
                    OngoingCampaign(last'.user, SheetLink, now)
        /\ InState(last'.user, {"WAITING_FOR_PROMPT"}) = {} =>
              /\ last'.reply # "none"
              /\ campaigns' = campaigns
              /\ members' = members
              /\ sheet' = sheet ]_vars

\* C19: the fan-out attempts every member of the campaign whatever fails
\* for some of them: it returns counts whose sum is the number of members,
\* a member whose message was sent has num_pings 1 and last_ping set, and
\* a member whose attempt failed keeps num_pings 0.
C19_FanOutAttemptsAll ==
  [][ (ManagerRan("task") /\ last'.status \in {"finalized", "raised"}) =>
        LET ids == {i \in MemberIds : members[i].campaign_id = last'.campaign}
            oc == last'.outcomes
        IN /\ ~IsNull(last'.stats)
           /\ last'.stats[1].success + last'.stats[1].failed = Cardinality(ids)
           /\ \A i \in ids :
                 /\ oc[i] = "sent" => /\ members'[i].num_pings = 1
                                      /\ members'[i].last_ping = Some(now)
                 /\ oc[i] \in {"nouser", "nosend"} =>
                       members'[i].num_pings = members[i].num_pings ]_vars

-----------------------------------------------------------------------------
(* The scheduler on campaigns that have run for a week: two campaigns of   *)
(* two managers with one member each, a week after they were started.  The *)
(* run is two steps: the reminders and the completion checks, whose commit *)
(* ends a transaction, and then check_stale_campaigns.  The run in         *)
(* progress is kept in tasks; last is the report of check_stale_campaigns: *)
(* the notices it posted, in the order of its loop.                        *)

\* timedelta(days=7), in hours
StaleHours == 168

\* hours the clock may advance past the week
MaxStaleTicks == 2

\* scheduler runs in one behaviour
MaxStaleRuns == 2

StaleManagers == <<"M1", "M2">>

StaleEmails == <<"a@x.com", "b@x.com">>

\* a member after the fan-out at time t who has answered "Yes" and then
\* confirmed with "Yes"
ConfirmedAt(user, t) ==
  LET o == CHOOSE q \in Oracles : TRUE IN
  dm_response(dm_response(user, TxtYes, o, t).obj, TxtYes, o, t).obj

\* the member of campaign c: silent through every reminder, or confirmed
StaleMember(c, kind) ==
  LET sent == initial_notification(NewCampaignUser(c, StaleEmails[c]), "sent", 0) IN
  IF kind = "confirmed" THEN ConfirmedAt(sent, 1)
  ELSE Swept(<< sent >>, MAX_PINGS)[1]

StaleInit ==
  /\ now = StaleHours
  /\ \E st \in [1..2 -> {"ONGOING", "COMPLETED"}], s \in [1..2 -> {0, 1}],
        kind \in [1..2 -> {"silent", "confirmed"}] :
        /\ \A c \in 1..2 : st[c] = "COMPLETED" => kind[c] = "confirmed"
        /\ campaigns = [c \in 1..2 |->
                          [OngoingCampaign(StaleManagers[c], SheetLink, s[c])
                             EXCEPT !.state = st[c]]]
        /\ members = [c \in 1..2 |-> StaleMember(c, kind[c])]
        /\ channel = [u \in SlackUsers |->
                        IF \E c \in 1..2 : /\ kind[c] = "confirmed"
                                           /\ LookupByEmail(StaleEmails[c]) = u
                          THEN "recorded" ELSE "reminder"]
  /\ sheet = << SheetHeader >>
  /\ tasks = << >>
  /\ last = NoTask
  /\ nrecv = 0

\* an hour passes
StaleTick ==
  /\ now < StaleHours + MaxStaleTicks
  /\ now' = now + 1
  /\ UNCHANGED <<campaigns, members, sheet, channel, tasks, last, nrecv>>

\* scheduled_tasks up to the completion checks, as ScheduledTasks; the run
\* goes on with check_stale_campaigns
RunSweep(delivered) ==
  /\ nrecv < MaxStaleRuns
  /\ SweepTasks = {}
  /\ delivered \subseteq Unresponsive
  /\ members' = check_and_resend_notifications(members, delivered)
  /\ campaigns' = [c \in DOMAIN campaigns |->
                     check_campaign_completion(campaigns, c, members')[c]]
  /\ channel' = [u \in SlackUsers |->
                   IF \E i \in delivered : members[i].slack_user_id = Some(u)
                     THEN "reminder" ELSE channel[u]]
  /\ tasks' = Append(tasks,
       [ seq |-> nrecv + 1, user |-> "", text |-> << >>, member |-> 0,
         loaded |-> << >> ])
  /\ nrecv' = nrecv + 1
  /\ UNCHANGED <<sheet, last, now>>

\* check_stale_campaigns that leaves out the test of the state
StaleCampaigns_any_state(camp, t) ==
  {c \in DOMAIN camp : /\ ~IsNull(camp[c].notification_start_time)
                       /\ camp[c].notification_start_time[1] < t - StaleHours}

\* the rows the query of check_stale_campaigns returns at time t
StaleCampaigns(camp, t) ==
  {c \in DOMAIN camp : /\ camp[c].state = "ONGOING"
                       /\ ~IsNull(camp[c].notification_start_time)
                       /\ camp[c].notification_start_time[1] < t - StaleHours}

\* the loop of check_stale_campaigns from row c on: one notice to the
\* manager of each row returned, unless opening the channel or posting
\* failed (c is then not in posted), which the loop passes over
RECURSIVE check_stale_campaigns(_, _, _, _)
check_stale_campaigns(camp, t, posted, c) ==
  IF c > Len(camp) THEN << >>
  ELSE (IF c \in StaleCampaigns(camp, t) /\ c \in posted
          THEN << [campaign |-> c, to |-> camp[c].manager_id] >>
          ELSE << >>) \o check_stale_campaigns(camp, t, posted, c + 1)

\* the end of the scheduler run: check_stale_campaigns
CheckStale(k, posted) ==
  /\ k \in SweepTasks
  /\ last' = [ seq |-> tasks[k].seq, user |-> "", text |-> << >>, member |-> 0,
               loaded |-> << >>, status |-> "stale", reply |-> "none",
               posted |-> posted,
               advised |-> check_stale_campaigns(campaigns, now, posted, 1) ]
  /\ tasks' = Without(tasks, k)
  /\ UNCHANGED <<campaigns, members, sheet, channel, nrecv, now>>

StaleNext ==
  \/ StaleTick
  \/ \E delivered \in SUBSET MemberIds : RunSweep(delivered)
  \/ \E k \in 1..Len(tasks), posted \in SUBSET (1..Len(campaigns)) : CheckStale(k, posted)

StaleSpec == StaleInit /\ [][StaleNext]_vars

\* check_stale_campaigns ended in this step
StaleRan == last'.seq # last.seq /\ last'.status = "stale"

\* C21: check_stale_campaigns changes no campaign and no member; each
\* notice it posts goes to the manager of a campaign that is ONGOING and
\* whose notification_start_time is more than 7 days back, no campaign gets
\* two notices in one run, every such campaign whose post succeeded gets
\* one, and a campaign in another state gets none.
C21_StaleCheckAdvisoryOnly ==
  [][ StaleRan =>
        LET adv == last'.advised IN
        /\ campaigns' = campaigns
        /\ members' = members
        /\ sheet' = sheet
        /\ \A j \in 1..Len(adv) :
              /\ campaigns[adv[j].campaign].state = "ONGOING"
              /\ campaigns[adv[j].campaign].notification_start_time[1] < now - StaleHours
              /\ adv[j].to = campaigns[adv[j].campaign].manager_id
              /\ \A h \in 1..Len(adv) : adv[h].campaign = adv[j].campaign => h = j
        /\ \A c \in last'.posted :
              (/\ campaigns[c].state = "ONGOING"
               /\ campaigns[c].notification_start_time[1] < now - StaleHours) =>
                 \E j \in 1..Len(adv) : adv[j].campaign = c ]_vars

C21_Witness ==
  /\ last.status = "stale"
  /\ Len(last.advised) = 1
  /\ last.posted = {1, 2}
  /\ \E c \in 1..2 : /\ campaigns[c].state = "COMPLETED"
                     /\ campaigns[c].notification_start_time[1] < now - StaleHours
  /\ \E c \in 1..2 : /\ campaigns[c].state = "ONGOING"
                     /\ last.advised[1].campaign = c

-----------------------------------------------------------------------------
(* Two scheduler runs at a time.  main.py starts one scheduled_tasks loop  *)
(* in every process that serves the application, against one database;    *)
(* repeat_every runs the loop of one process one run after the other, and  *)
(* nothing in scheduler.py keeps the run of one process from starting      *)
(* while the run of another is between its query and its commit.           *)

\* processes serving the application
MaxSchedulers == 2

\* check_and_resend_notifications, the query, in any of the processes
OverlapSelect ==
  /\ Cardinality(SweepTasks) < MaxSchedulers
  /\ tasks' = Append(tasks,
       [ seq |-> 0, user |-> "", text |-> << >>, member |-> 0,
         loaded |-> [i \in Unresponsive |-> members[i]] ])
  /\ UNCHANGED <<campaigns, members, sheet, channel, last, nrecv, now>>

\* hours that pass while runs are in progress
MaxHourTicks == 1

\* an hour passes
HourTick ==
  /\ now < (MaxEarlierSweeps + MaxLateTicks) * Day + MaxHourTicks
  /\ now % Day < MaxHourTicks
  /\ now' = now + 1
  /\ UNCHANGED <<campaigns, members, sheet, channel, tasks, last, nrecv>>

OverlapNext ==
  \/ OverlapSelect
  \/ \E k \in SweepTasks : \E delivered \in SUBSET MemberIds, aborted \in BOOLEAN :
        SweepSend(k, delivered, aborted)
  \/ LateTick
  \/ HourTick

OverlapSpec == SweepInit /\ [][OverlapNext]_vars

\* C22: no scheduler run starts while another is between its query and its
\* commit, so that no member is reminded twice for one period.
C22_NoOverlap ==
  /\ Cardinality(SweepTasks) <= 1
  /\ \A k \in SweepTasks : \A i \in DOMAIN tasks[k].loaded :
        tasks[k].loaded[i].num_pings = members[i].num_pings

-----------------------------------------------------------------------------
(* The member rows as the store shows them *)

DecisionFields == {"response", "response_confidence", "raw_response", "response_time"}

\* C23: in every state of the store the columns response,
\* response_confidence, raw_response and response_time of a member are all
\* null or all set, also after a handler whose reply failed has rolled
\* back and when handlers ran on rows read earlier.
C23_DecisionFieldsTogether ==
  \A i \in MemberIds :
     \/ \A f \in DecisionFields : IsNull(members[i][f])
     \/ \A f \in DecisionFields : ~IsNull(members[i][f])

C23_Witness ==
  /\ last.status = "failed"
  /\ S0(last.before)
  /\ Likely[last.text]
  /\ \A f \in DecisionFields : IsNull(members[last.member][f])
  /\ \E i \in MemberIds : \A f \in DecisionFields : ~IsNull(members[i][f])

-----------------------------------------------------------------------------
(* One person in the rosters of two campaigns.  Manager M1 has uploaded a  *)
(* roster with a@x.com and b@x.com and has not yet sent the task message;  *)
(* manager M2 has set up a later campaign with a@x.com, which is ONGOING.  *)
(* Direct messages come from the two users and from a user of the          *)
(* workspace who is in no roster.                                          *)

Strangers == {"U9"}

CrossTexts == {TxtYes, TxtNo}

CrossInit ==
  /\ now = 0
  /\ campaigns = << [NewCampaign("M1") EXCEPT !.state = "WAITING_FOR_PROMPT"],
                    OngoingCampaign("M2", SheetLink, 0) >>
  /\ members = << NewCampaignUser(1, "a@x.com"),
                  NewCampaignUser(1, "b@x.com"),
                  initial_notification(NewCampaignUser(2, "a@x.com"), "sent", 0) >>
  /\ channel = [u \in SlackUsers |-> IF u = LookupByEmail("a@x.com") THEN "msg" ELSE "none"]
  /\ sheet = << SheetHeader >>
  /\ tasks = << >>
  /\ last = NoTask
  /\ nrecv = 0

\* handle_slack_events, a message event of channel_type im with a text and
\* no file, from any user: handle_dm_response is queued when the sender is
\* a member of an ONGOING campaign, as in ReceiveDm; any other sender is
\* acknowledged, and the event is only logged
ReceiveCrossDm(u, text) ==
  /\ nrecv < MaxEvents
  /\ IF Routed(u) # {}
       THEN /\ tasks' = Append(tasks,
                 [ seq |-> nrecv + 1, user |-> u, text |-> text,
                   member |-> First(Routed(u)),
                   loaded |-> members[First(Routed(u))] ])
            /\ last' = last
       ELSE /\ tasks' = tasks
            /\ last' = [NoTask EXCEPT !.seq = nrecv + 1, !.user = u, !.text = text,
                                      !.status = "unrouted"]
  /\ nrecv' = nrecv + 1
  /\ UNCHANGED <<campaigns, members, sheet, channel, now>>

CrossNext ==
  \/ \E u \in SlackUsers \cup Strangers, text \in CrossTexts : ReceiveCrossDm(u, text)
  \/ \E k \in DmTasks :
        \E o \in OraclesFor(tasks[k].text), slack \in SlackOutcomes,
           led \in LedgerOutcomes \cup {"none"}, found \in BOOLEAN :
              HandleDm(k, o, slack, led, found)
  \/ \E manager \in Managers : ReceiveTaskMessage(manager)
  \/ \E k \in ManagerTasks("task"), stale \in BOOLEAN :
        \E oc \in [{i \in MemberIds : members[i].campaign_id = tasks[k].loaded.campaign}
                     -> {"sent", "nouser"}] :
           Finalize(k, TRUE, stale, TRUE, oc)
  \/ \E delivered \in SUBSET MemberIds : ScheduledTasks(delivered)

CrossSpec == CrossInit /\ [][CrossNext]_vars

\* handle_dm_response ended in this step
DmHandled == HandlerRan /\ last'.member # 0

\* C24: handle_dm_response changes at most the one member row its query
\* returned: every other row, of the same campaign or of another, and
\* every campaign are the same after it, whatever branch it took, the
\* reset of the decision included.
C24_OneMemberPerMessage ==
  [][ DmHandled =>
        /\ campaigns' = campaigns
        /\ Len(members') = Len(members)
        /\ \A i \in MemberIds : i # last'.member => members'[i] = members[i] ]_vars

C24_Witness ==
  /\ last.member = 3
  /\ last.status = "done"
  /\ last.reply = "clarify"
  /\ S1(last.before)
  /\ S0(members[3])
  /\ members[1].slack_user_id = members[3].slack_user_id
  /\ campaigns[1].state = "ONGOING"
  /\ campaigns[2].state = "ONGOING"

-----------------------------------------------------------------------------
\* the sender is the Slack identity of a member row of an ONGOING campaign
IsParticipant(u) ==
  \E i \in MemberIds : /\ members[i].slack_user_id = <<u>>
                       /\ campaigns[members[i].campaign_id].state = "ONGOING"

\* the event of this step was a direct message that queued no handler
Unrouted == HandlerRan /\ last'.status = "unrouted"

\* C25: a direct message whose sender is not the Slack identity of a member
\* of an ONGOING campaign (a user in no roster, or a member only of
\* campaigns that are not ONGOING) queues no handle_dm_response and changes
\* no member, no campaign, no sheet and no conversation; a handler is
\* queued only for a sender who is such a member; and a handler whose own
\* query finds no such member ends without changing anything.
C25_NonParticipantIgnored ==
  [][ /\ Unrouted =>
           /\ ~IsParticipant(last'.user)
           /\ tasks' = tasks
           /\ members' = members
           /\ campaigns' = campaigns
           /\ sheet' = sheet
           /\ channel' = channel
      /\ (nrecv' # nrecv /\ ~IsParticipant(last'.user) /\ last' # last) => Unrouted
      /\ \A k \in 1..Len(tasks') :
           (tasks'[k].seq = nrecv' /\ nrecv' # nrecv /\ tasks'[k].member # 0)
             => IsParticipant(tasks'[k].user)
      /\ (DmHandled /\ last'.status = "ignored") =>
           /\ members' = members
           /\ campaigns' = campaigns
           /\ sheet' = sheet
           /\ channel' = channel ]_vars

\* a member whose only campaign with their identity is COMPLETED writes
\* again and is not routed
C25_Witness ==
  /\ last.status = "unrouted"
  /\ last.user = LookupByEmail("a@x.com")
  /\ campaigns[2].state = "COMPLETED"
  /\ campaigns[1].state = "WAITING_FOR_PROMPT"
  /\ members[3].slack_user_id = <<last.user>>
  /\ members[3].response_confirmed

-----------------------------------------------------------------------------
\* C26: when handle_dm_response has stored an initial answer that
\* analyze_response could not classify (label unclear, with confidence 0.0
\* when the classification raised), the stored decision is unclear with
\* that confidence, and the message posted to the member asks them to
\* clarify instead of stating a decision to keep or to release.
C26_UnclearAsksToClarify ==
  ( /\ last.status = "done"
    /\ last.member # 0
    /\ S0(last.before)
    /\ ~IsNull(last.cls)
    /\ last.cls[1][1] = "unclear" )
  => /\ last.cls[1][2] \in {0, 5}
     /\ last.reply = "clarify"

-----------------------------------------------------------------------------
(* The life of one campaign with the clock running: the hours pass between *)
(* the events, so that two writes of a time are told apart.                *)

TimedNext ==
  \/ LifecycleNext
  \/ Tick

TimedSpec == LifecycleInit /\ [][TimedNext]_vars

\* C27: a campaign in WAITING_FOR_FILE or WAITING_FOR_PROMPT has no prompt,
\* no crafted_msg and no notification_start_time; a campaign in ONGOING or
\* COMPLETED has a notification_start_time; and a notification_start_time
\* that has been written is never written to another value.
C27_StartedAtWrittenOnce ==
  /\ [](\A c \in CampaignIds :
          /\ campaigns[c].state \in {"WAITING_FOR_FILE", "WAITING_FOR_PROMPT"} =>
                /\ IsNull(campaigns[c].prompt)
                /\ IsNull(campaigns[c].crafted_msg)
                /\ IsNull(campaigns[c].notification_start_time)
          /\ campaigns[c].state \in {"ONGOING", "COMPLETED"} =>
                ~IsNull(campaigns[c].notification_start_time))
  /\ [][ \A c \in CampaignIds :
           ~IsNull(campaigns[c].notification_start_time) =>
              campaigns'[c].notification_start_time =
                 campaigns[c].notification_start_time ]_vars

-----------------------------------------------------------------------------
\* the columns written by the scheduler and by the fan-out
PingFields == {"num_pings", "last_ping"}

\* the columns written by handle_dm_response
AnswerFields == DecisionFields \cup {"response_confirmed"}

SameFields(i, fields) == \A f \in fields : members'[i][f] = members[i][f]

\* C28: the sweep and the fan-out leave response, response_confidence,
\* raw_response, response_time and response_confirmed of every member as
\* they are; handle_dm_response leaves num_pings and last_ping of every
\* member as they are; and num_pings of a member whose answer is confirmed
\* does not change any more.
C28_DisjointWriters ==
  [][ \A i \in MemberIds :
        /\ DmHandled => SameFields(i, PingFields)
        /\ ~DmHandled => SameFields(i, AnswerFields)
        /\ members[i].response_confirmed => members'[i].num_pings = members[i].num_pings
    ]_vars

-----------------------------------------------------------------------------
\* C29: a reminder is recorded for a member (num_pings raised, last_ping
\* set again) only when the member's stored last_ping is more than 24 hours
\* before the time of the run, so that two consecutive values of last_ping
\* of a member are more than 24 hours apart.
C29_RemindersOneIntervalApart ==
  [][ \A i \in MemberIds :
        (Reminded(i) /\ ~IsNull(members[i].last_ping)) =>
           /\ members[i].last_ping[1] < now - ReminderHours
           /\ members'[i].last_ping[1] - members[i].last_ping[1] > ReminderHours ]_vars

-----------------------------------------------------------------------------
\* C30: a member whose answer awaits confirmation (S1) is in a campaign
\* that is ONGOING, and a message of that member is routed to that row, the
\* row the queries of handle_slack_events and handle_dm_response return
\* for the sender, so that a literal yes or no can still move it.
C30_PendingNeverStuck ==
  \A i \in MemberIds :
     S1(members[i]) =>
        /\ campaigns[members[i].campaign_id].state = "ONGOING"
        /\ ~IsNull(members[i].slack_user_id)
        /\ i \in Routed(members[i].slack_user_id[1])
        /\ \A j \in Routed(members[i].slack_user_id[1]) : i <= j

-----------------------------------------------------------------------------
\* C31: every row below the header of the sheet stands for a member who is
\* confirmed in the store with the decision and the number of pings of the
\* row; in particular a confirmation whose sheet update succeeded is in
\* the store also when the acknowledgement that follows could not be
\* posted.
C31_LedgerRowMeansConfirmed ==
  \A r \in 2..Len(sheet) :
     \E i \in MemberIds :
        /\ members[i].user_email = sheet[r][1]
        /\ members[i].response_confirmed
        /\ ~IsNull(members[i].response)
        /\ members[i].response[1] = sheet[r][3]
        /\ Str(members[i].num_pings) = sheet[r][2]

-----------------------------------------------------------------------------
\* C32: when the reply of handle_dm_response (the confirmation prompt, the
\* acknowledgement, the retraction notice, the re-prompt or the notice
\* that the answer is already recorded) cannot be posted, the store is
\* what it was before the message was handled: no member and no campaign
\* has changed, so handling the same message again starts from the same
\* row.
C32_FailedReplyRollsBack ==
  [][ (DmHandled /\ last'.status = "failed") =>
        /\ members' = members
        /\ members'[last'.member] = last'.before
        /\ campaigns' = campaigns ]_vars

\* the acknowledgement of a literal yes could not be posted and the member
\* is still in S1
C32_Witness ==
  /\ last.status = "failed"
  /\ last.member # 0
  /\ S1(last.before)
  /\ Normalized[last.text] = <<"y", "e", "s">>
  /\ members[last.member] = last.before

-----------------------------------------------------------------------------
\* rows i < j of one campaign that carry the same Slack identity
Twins(i, j) ==
  /\ i < j
  /\ members[i].campaign_id = members[j].campaign_id
  /\ ~IsNull(members[i].slack_user_id)
  /\ members[i].slack_user_id = members[j].slack_user_id

\* C33: when two rows of one campaign carry the same Slack identity, every
\* message of that identity is handled on the first of them; the other row
\* has no decision, is never confirmed, and the campaign is not COMPLETED.
C33_DuplicateMemberStarves ==
  \A i \in MemberIds, j \in MemberIds :
     Twins(i, j) =>
        /\ IsNull(members[j].response)
        /\ ~members[j].response_confirmed
        /\ campaigns[members[j].campaign_id].state # "COMPLETED"
        /\ \A k \in DmTasks :
              tasks[k].user = members[j].slack_user_id[1] => tasks[k].member # j

-----------------------------------------------------------------------------
\* the initial message did not reach the member
NeverPinged(u) == u.num_pings = 0 /\ IsNull(u.last_ping)

\* C34: a member whose initial message failed (num_pings 0, last_ping null)
\* is in the selection of no run of check_and_resend_notifications, and no
\* step of a run changes its num_pings or last_ping: the failed initial
\* message is not made up for by a reminder.
C34_FailedInitialNeverRetried ==
  [][ \A i \in MemberIds :
        NeverPinged(members[i]) =>
           /\ ~Reminded(i)
           /\ NeverPinged(members'[i])
           /\ SweepSelected => i \notin DOMAIN tasks'[Len(tasks')].loaded ]_vars

\* days after the fan-out a run has selected another member while a member
\* whose identity was resolved but whose initial message failed has still
\* not answered
C34_Witness ==
  /\ now >= Day
  /\ \E k \in SweepTasks : DOMAIN tasks[k].loaded # {}
  /\ \E i \in MemberIds :
        /\ NeverPinged(members[i])
        /\ ~IsNull(members[i].slack_user_id)
        /\ IsNull(members[i].response)
        /\ \A k \in SweepTasks : i \notin DOMAIN tasks[k].loaded

-----------------------------------------------------------------------------
\* C35: a COMPLETED campaign has at least one member, and every member of
\* it is confirmed and has a decision.
C35_CompletedMeansAllConfirmed ==
  \A c \in CampaignIds :
     campaigns[c].state = "COMPLETED" =>
        /\ \E i \in MemberIds : members[i].campaign_id = c
        /\ \A i \in MemberIds :
              members[i].campaign_id = c =>
                 /\ members[i].response_confirmed
                 /\ ~IsNull(members[i].response)

-----------------------------------------------------------------------------
\* C36: a reminder (num_pings raised, last_ping set again) is recorded only
\* for a member whose campaign is ONGOING when the reminder is sent.
C36_RemindersOnlyWhileOngoing ==
  [][ \A i \in MemberIds :
        Reminded(i) => campaigns[members[i].campaign_id].state = "ONGOING" ]_vars

-----------------------------------------------------------------------------
(* A manager who asks for another campaign.  The first campaign waits for  *)
(* its prompt with the roster of a CSV in which no row has an email, or    *)
(* with the roster of one address; the manager sends the task message and  *)
(* the slash command, the member answers, the scheduler runs.              *)

EmptyUploads == { << NoCell >>, << <<"a@x.com">> >> }

RestartInit ==
  /\ now = 0
  /\ campaigns = << [NewCampaign("M1") EXCEPT !.state = "WAITING_FOR_PROMPT"] >>
  /\ \E rows \in EmptyUploads : members = NewMembers(1, rows)
  /\ sheet = << >>
  /\ channel = [u \in SlackUsers |-> "none"]
  /\ tasks = << >>
  /\ last = NoTask
  /\ nrecv = 0

RestartNext ==
  \/ LifecycleNext
  \/ \E manager \in Managers : ReceiveSlash(manager)
  \/ \E k \in 1..Len(tasks), it \in BOOLEAN : SetupCheck(k, it)
  \/ \E k \in 1..Len(tasks), slack \in {"ok", "noopen", "nopost"} : SetupCommit(k, slack)

RestartSpec == RestartInit /\ [][RestartNext]_vars

\* the campaign is ONGOING and has no member
EmptyOngoing(c) ==
  /\ campaigns[c].state = "ONGOING"
  /\ \A i \in MemberIds : members[i].campaign_id # c

\* C37: an ONGOING campaign without members stays ONGOING and without
\* members in every step, and while it exists no campaign of its manager
\* is created.
C37_EmptyCampaignNeverCompletes ==
  [][ \A c \in CampaignIds :
        EmptyOngoing(c) =>
           /\ campaigns'[c].state = "ONGOING"
           /\ \A i \in DOMAIN members' : members'[i].campaign_id # c
           /\ \A d \in DOMAIN campaigns' :
                 d \notin CampaignIds =>
                    campaigns'[d].manager_id # campaigns[c].manager_id ]_vars

\* the manager of the empty ONGOING campaign has asked for a new campaign
\* and has been turned down
C37_Witness ==
  /\ Len(campaigns) = 1
  /\ EmptyOngoing(1)
  /\ last.status = "rejected"
  /\ last.reply = "already active"
  /\ last.user = campaigns[1].manager_id

-----------------------------------------------------------------------------
\* C38: when setup_campaign tells the manager anything but that the setup
\* was initiated (not an IT member, a campaign is already active, the
\* direct message could not be sent), the campaigns are what they were
\* before the command.
C38_FailedSetupLeavesNoCampaign ==
  [][ (ManagerRan("setup") /\ last'.reply # "setup initiated") =>
        campaigns' = campaigns ]_vars

-----------------------------------------------------------------------------
\* C39: a /campaign command, a CSV upload or a task message of a user for
\* whom is_it_member did not return true (the title names no IT role, or
\* the lookup failed) is answered with the refusal and changes no campaign,
\* no member, no sheet and no conversation; and campaigns and members
\* change only in the step of a handler that was not refused.
C39_OnlyVerifiedRequesters ==
  [][ /\ (HandlerRan /\ last'.status = "denied") =>
            /\ campaigns' = campaigns
            /\ members' = members
            /\ sheet' = sheet
            /\ channel' = channel
      /\ (campaigns' # campaigns \/ members' # members) =>
            /\ HandlerRan
            /\ last'.status \in {"created", "uploaded", "finalized", "raised"} ]_vars

\* the task message of a manager whose campaign waits for its prompt has
\* been refused, and the campaign still waits with its roster
C39_Witness ==
  /\ last.status = "denied"
  /\ last.loaded.kind = "task"
  /\ \E c \in CampaignIds :
        /\ campaigns[c].manager_id = last.user
        /\ campaigns[c].state = "WAITING_FOR_PROMPT"
        /\ \E i \in MemberIds : members[i].campaign_id = c

-----------------------------------------------------------------------------
\* C40: num_pings of a member counts the messages posted to the member: a
\* step that raises it raises it by one and posts a reminder to the
\* member, and a step that posts a reminder to the member raises it by one.
C40_PingCountMatchesSends ==
  [][ \A i \in MemberIds :
        /\ members'[i].num_pings # members[i].num_pings =>
              /\ members'[i].num_pings = members[i].num_pings + 1
              /\ ~IsNull(members[i].slack_user_id)
              /\ channel'[members[i].slack_user_id[1]] = "reminder"
        /\ ( /\ ~IsNull(members[i].slack_user_id)
             /\ channel'[members[i].slack_user_id[1]] = "reminder"
             /\ channel[members[i].slack_user_id[1]] # "reminder" ) =>
              members'[i].num_pings = members[i].num_pings + 1 ]_vars

====
